---- MODULE Spec2Model ----
(***************************************************************************)
(* PlayoutEngine (PVW / PGM state machine) of veles-playout.               *)
(*                                                                         *)
(* Every async method of the engine is modelled at the granularity of its  *)
(* awaits: the synchronous prefix of a method is one step (the "call"),    *)
(* and every resumption after an awaited surface hook is one step.  The    *)
(* control server dispatches commands without awaiting the previous one,   *)
(* so calls interleave at these points.  The MIX completion timer is a     *)
(* step of its own, followed by the resumption after its awaited stop hook.*)
(* The calls in flight are a bag of suspended continuations.               *)
(***************************************************************************)
EXTENDS Naturals, Integers, Sequences, FiniteSets, Bags, TLC

VARIABLES
    state,        \* EngineState
    pvwWindow,    \* surface labelled PVW
    pgmWindow,    \* surface labelled PGM
    pvwTemplate,  \* payload in the preview slot
    pgmTemplate,  \* payload in the program slot
    pvwReady,
    pgmReady,
    mixing,
    mixTimeout,   \* handle of the tracked mix timer
    calls,        \* engine calls in flight (bag of continuations)
    started,      \* a command has been issued (wiring is over)
    emitted,      \* events emitted by the last step, in order
    last,         \* which operation took the last step
    rt,           \* observer of a load-then-take sequence run alone
    mt,           \* observer of a takeMix run alone
    supWatch,     \* whether superseded mixes are being marked
    mixWatch,     \* whether a take or mix remembers what it started with
    sn,           \* observer of a status reply during an operation run alone
    fz,           \* observer of consecutive freeze() calls
    wiring,       \* main process: frame sources wired to the engine's events
    frozen,           \* FrameCapture: freeze flag
    lastFrame,        \* FrameCapture: bytes of the latest captured frame
    thumbnailCounter, \* FrameCapture: paints since the last thumbnail
    frameCount,       \* FrameCapture: frames emitted
    droppedFrames,    \* FrameCapture: empty bitmaps seen
    capLast,          \* FrameCapture: the step just taken
    stamps,           \* FrameCapture: Date.now() and the timestamps of frames
    capOut,           \* FrameCapture: frame emitted by the last step
    lastOut,          \* FrameCapture: the latest frame emitted so far
    refOut,           \* FrameCapture: lastOut when the flag was last set
    outputs,          \* OutputManager: the sink registered under each id
    keyBuffer,        \* OutputManager: the reused key buffer
    errorCounts,      \* OutputManager: failures counted per id
    sent,             \* OutputManager: sink calls made by the last step
    outLast,          \* OutputManager: the step just taken
    streak,           \* OutputManager: distributions in a row a sink threw in
    clockTimer,       \* OutputManager: whether the clock interval is set
    heldFrame,        \* OutputManager: heldFrame with heldSize
    via,              \* OutputManager: who pushed or ticked, and what
    authToken,        \* WebSocketServer: the configured token, or null
    clients,          \* WebSocketServer: ids of the registered sessions
    sockets,          \* WebSocketServer: the connections made so far
    pendingOps,       \* WebSocketServer: commands awaiting the engine
    srvOut,           \* WebSocketServer: events sent or emitted by the step
    engineOps,        \* WebSocketServer: engine methods the step invoked
    srvLast,          \* WebSocketServer: the step just taken
    probe,            \* HealthServer: engine state and capture fps read
    response,         \* HealthServer: the reply to GET /health
    blend             \* main process: a call of blendFrames and its result

engineVars == <<state, pvwWindow, pgmWindow, pvwTemplate, pgmTemplate,
                pvwReady, pgmReady, mixing, mixTimeout>>

\* The engine with its calls in flight and its observers.
engineAll == <<state, pvwWindow, pgmWindow, pvwTemplate, pgmTemplate,
               pvwReady, pgmReady, mixing, mixTimeout,
               calls, started, emitted, last, rt, mt, supWatch, mixWatch, sn, fz,
               wiring>>

captureVars == <<frozen, lastFrame, thumbnailCounter, frameCount,
                 droppedFrames, capLast, stamps, capOut, lastOut, refOut>>

vars == <<state, pvwWindow, pgmWindow, pvwTemplate, pgmTemplate,
          pvwReady, pgmReady, mixing, mixTimeout,
          calls, started, emitted, last, rt, mt, supWatch, mixWatch, sn, fz, wiring,
          frozen, lastFrame, thumbnailCounter, frameCount,
          droppedFrames, capLast, stamps, capOut, lastOut, refOut,
          outputs, keyBuffer, errorCounts, sent, outLast, streak,
          clockTimer, heldFrame, via,
          authToken, clients, sockets, pendingOps, srvOut, engineOps,
          srvLast, probe, response, blend>>

\* The clock of the OutputManager and the observer of its callers.
clockVars == <<clockTimer, heldFrame, via>>

outputVars == <<outputs, keyBuffer, errorCounts, sent, outLast, streak,
                clockVars>>

serverVars == <<authToken, clients, sockets, pendingOps, srvOut, engineOps,
                srvLast>>

healthVars == <<probe, response>>

\* The control server, the health endpoint and the blend of a mix.
serviceVars == <<serverVars, healthVars, blend>>

\* ---------------------------------------------------------------- bounds

\* Number of engine calls that may be in flight at the same time.
MaxCalls == 2

\* Cap on the frame and drop counters of a capture.
MaxCount == 3

\* Cap on the interval timers of blackBurst that are set at the same time.
MaxTimers == 3

\* Cap on the mix captures attached at the same time.
MaxMix == 2

\* Cap on the commands of the control server awaiting the engine.
MaxPending == 1

\* Highest capture rate reported to the health endpoint.
MaxFps == 30

\* Number of output periods the clock of a capture is followed for.
MaxNow == 4

\* Length in bytes of the longer buffers blended: one BGRA pixel and a byte.
MaxLen == 5

\* ---------------------------------------------------------------- values

NULL == "null"

EngineState == {"idle", "pvw-loaded", "on-air", "frozen"}

\* Two distinct payloads are enough to tell the slots apart.
Payloads == {"P1", "P2"}

\* pgmTemplate.variables = variables: the payload with its variables
\* replaced ("P1v" is payload P1 carrying the variables of an update).
SetVariables(t) ==
    CASE t \in {"P1", "P1v"} -> "P1v"
      [] t \in {"P2", "P2v"} -> "P2v"
      [] OTHER -> t

\* Whether the variables of payload t are those of an update.
Updated(t) == t \in {"P1v", "P2v"}

\* Durations handed to takeMix (the control server defaults to 500).
Durations == {50, 500}

\* this.mixTimeout = null
NoTimer == 0

\* A continuation: where it is suspended (pc), the duration of a takeMix
\* not yet armed (dur), the handle of the timer it armed (h); sup, obs, P
\* and incoming belong to the observers below.
Call(pc, dur) ==
    [pc |-> pc, dur |-> dur, h |-> NoTimer, sup |-> "none", obs |-> FALSE,
     P |-> NULL, incoming |-> NULL]

NoCall == Call("free", 0)

InFlight == BagToSet(calls)

HasFree == BagCardinality(calls) < MaxCalls

\* setTimeout returns a handle no pending timer has.
NewHandle ==
    CHOOSE h \in 1..MaxCalls :
        /\ \A c \in InFlight : c.h # h
        /\ \A g \in 1..MaxCalls : (\A c \in InFlight : c.h # g) => h <= g

BagWithout(B, c) == B (-) SetToBag({c})

\* getSnapshot()
Snapshot(st, pvwT, pgmT, pvwR, pgmR, mx) ==
    [state |-> st, pvwTemplate |-> pvwT, pgmTemplate |-> pgmT,
     pvwReady |-> pvwR, pgmReady |-> pgmR, mixing |-> mx]

\* emit(type, arg)
Ev(type, arg) == [type |-> type, arg |-> arg]

\* emitState(): emit('state', getSnapshot())
StateEv(st, pvwT, pgmT, pvwR, pgmR, mx) ==
    Ev("state", Snapshot(st, pvwT, pgmT, pvwR, pgmR, mx))

Count(seq, type) == Cardinality({i \in DOMAIN seq : seq[i].type = type})

\* The step just taken: operation, phase (call, step, fire, done), result
\* (pending, ok, error), and the observer marks of the continuation that
\* took it.
Step(op, phase, result, c) ==
    [op |-> op, phase |-> phase, result |-> result,
     obs |-> c.obs, sup |-> c.sup, P |-> c.P, incoming |-> c.incoming]

\* What a watched take or mix remembers: this.pvwTemplate when it was
\* called, and the surface that was PVW then (take) or that its mixStart
\* event announced as incoming (takeMix).
Remembered(v) == IF mixWatch THEN v ELSE NULL

\* ------------------------------------------------------------- observers

RtNone == [stage |-> "none", P |-> NULL]

MtNone == [stage |-> "none", P |-> NULL, d |-> 0, pvw0 |-> NULL,
           pgm0 |-> NULL, nStart |-> 0, nTake |-> 0, dur |-> 0]

MixRunning(c) == c.pc \in {"mix_play", "mix_timer"}

\* load(P) then take(), with no step of any other operation in between.
RtNext(l) ==
    CASE l.op = "load" /\ l.phase = "call" /\ l.result = "pending"
              /\ pvwWindow # NULL /\ pgmWindow # NULL
           -> [stage |-> "load", P |-> pvwTemplate']
      [] l.op = "load" /\ l.phase = "step" /\ l.result = "pending"
              /\ rt.stage = "load" /\ l.obs
           -> rt
      [] l.op = "load" /\ l.phase = "done" /\ l.result = "ok"
              /\ rt.stage = "load" /\ l.obs
           -> [rt EXCEPT !.stage = "loaded"]
      [] l.op = "take" /\ l.phase = "call" /\ l.result = "pending"
              /\ rt.stage = "loaded"
           -> [rt EXCEPT !.stage = "take"]
      [] l.op = "take" /\ l.phase = "step" /\ l.result = "pending"
              /\ rt.stage = "take" /\ l.obs
           -> rt
      [] l.op = "take" /\ l.phase = "done" /\ l.result = "ok"
              /\ rt.stage = "take" /\ l.obs
           -> [rt EXCEPT !.stage = "done"]
      [] OTHER -> RtNone

\* takeMix(d), with no step of any other operation until its timer callback
\* has finished.
MtNext(l, me) ==
    LET starts == Count(emitted', "mixStart")
        takes  == Count(emitted', "take")
    IN
    CASE l.op = "takeMix" /\ l.phase = "call" /\ l.result = "pending"
           -> [stage |-> "play", P |-> pvwTemplate, d |-> me.dur,
               pvw0 |-> pvwWindow, pgm0 |-> pgmWindow,
               nStart |-> starts, nTake |-> takes, dur |-> 0]
      [] l.op = "takeMix" /\ l.phase = "step" /\ l.result = "pending"
              /\ mt.stage = "play" /\ l.obs
           -> [mt EXCEPT !.stage = "timer",
                         !.nStart = @ + starts, !.nTake = @ + takes,
                         !.dur = IF starts > 0
                                 THEN emitted'[CHOOSE i \in DOMAIN emitted' :
                                          emitted'[i].type = "mixStart"].arg.duration
                                 ELSE 0]
      [] l.op = "takeMix" /\ l.phase = "fire"
              /\ mt.stage = "timer" /\ l.obs
           -> [mt EXCEPT !.stage = "stop",
                         !.nStart = @ + starts, !.nTake = @ + takes]
      [] l.op = "takeMix" /\ l.phase = "done" /\ l.result = "ok"
              /\ mt.stage = "stop" /\ l.obs
           -> [mt EXCEPT !.stage = "done",
                         !.nStart = @ + starts, !.nTake = @ + takes]
      [] OTHER -> MtNone

\* The snapshot getSnapshot() returns in the current state.
SnapNow == Snapshot(state, pvwTemplate, pgmTemplate, pvwReady, pgmReady, mixing)

StOff == [stage |-> "off", pre |-> Snapshot("idle", NULL, NULL, FALSE, FALSE, FALSE),
          seen |-> Snapshot("idle", NULL, NULL, FALSE, FALSE, FALSE)]

StNone == [StOff EXCEPT !.stage = "none"]

\* One load, take, takeMix or clear started while no call was in flight and
\* run to its end with nothing but status commands in between: pre is the
\* snapshot before the call, seen is the first status reply sent while the
\* operation was suspended.
StNext(l) ==
    CASE sn.stage = "off" -> sn
      [] l.op \in {"load", "take", "takeMix", "clear"} /\ l.phase = "call"
              /\ l.result = "pending" /\ calls = EmptyBag
           -> [stage |-> "run", pre |-> SnapNow, seen |-> SnapNow]
      [] l.op = "status" /\ sn.stage = "run"
           -> [sn EXCEPT !.stage = "seen", !.seen = emitted'[1].arg]
      [] l.op = "status" /\ sn.stage = "seen"
           -> sn
      [] l.op \in {"load", "take", "takeMix", "clear"}
              /\ l.phase \in {"step", "fire"} /\ sn.stage \in {"run", "seen"}
           -> sn
      [] l.op \in {"load", "take", "takeMix", "clear"} /\ l.phase = "done"
              /\ l.result = "ok" /\ sn.stage = "seen"
           -> [sn EXCEPT !.stage = "done"]
      [] OTHER -> StNone

FzNone == [n |-> 0, s0 |-> Snapshot("idle", NULL, NULL, FALSE, FALSE, FALSE),
           s1 |-> Snapshot("idle", NULL, NULL, FALSE, FALSE, FALSE)]

\* freeze() calls that follow one another with no other step in between:
\* n counts them (up to two), s1 is the snapshot before the latest and s0
\* the snapshot before the one preceding it.
FzNext(l) ==
    IF l.op = "freeze"
    THEN [n |-> IF fz.n = 0 THEN 1 ELSE 2, s0 |-> fz.s1, s1 |-> SnapNow]
    ELSE FzNone

\* The calls in flight after a step: the other continuations, then the one
\* that took the step (NoCall when it has finished).  The continuation the
\* observers follow carries obs; when supWatch is set, the first take or
\* takeMix ("cut") or clear that gets past its precondition while a mix is
\* running marks that mix.
Settle(l, others, me) ==
    LET following == \/ RtNext(l).stage \in {"load", "take"}
                     \/ MtNext(l, me).stage \in {"play", "timer", "stop"}
        supersedes == /\ supWatch
                      /\ l.op \in {"take", "takeMix", "clear"}
                      /\ l.phase = "call"
                      /\ l.result # "error"
        mark(c) == [c EXCEPT !.obs = FALSE,
                             !.sup = IF supersedes /\ MixRunning(c) /\ @ = "none"
                                     THEN (IF l.op = "clear" THEN "clear" ELSE "cut")
                                     ELSE @]
        rest == IF BagToSet(others) = {} THEN EmptyBag
                ELSE [d \in {mark(c) : c \in BagToSet(others)} |->
                        BagCardinality([c \in {x \in BagToSet(others) :
                                                   mark(x) = d} |-> others[c]])]
    IN IF me = NoCall
       THEN rest
       ELSE rest (+) SetToBag({[me EXCEPT !.obs = following]})

\* ------------------------------------------- main process (frame sources)

\* The main process is not part of the run: no listener is attached.
Unwired ==
    [on |-> FALSE, timers |-> 0, intervalId |-> FALSE, onFrame |-> FALSE,
     pgmCapture |-> "none", mixCaptures |-> 0, mixCapture |-> FALSE,
     mixOutgoingFrame |-> FALSE, mixBlendBuffer |-> FALSE,
     released |-> TRUE, src |-> "none",
     attached |-> "null", frozen |-> FALSE, healthCapture |-> "none"]

\* The main process after app.whenReady: pgmCapture attached with no frame
\* listener, blackBurst started, no mix state.  timers counts the interval
\* timers of blackBurst that are set, intervalId and onFrame say whether
\* those fields are non-null; pgmCapture is what its frame listener does;
\* mixCaptures counts the mix captures attached, mixCapture says whether the
\* global refers to one; released says that no mixStart was handled since
\* the last cleanupMix; src is the source that pushed a frame in this step;
\* attached is the surface pgmCapture is attached to (the PGM surface of
\* setWindows) and frozen its freeze flag; healthCapture says whether the
\* capture handed to the HealthServer is the one pgmCapture refers to
\* ("pgmCapture") or one that was destroyed ("destroyed").
Wired ==
    [on |-> TRUE, timers |-> 1, intervalId |-> TRUE, onFrame |-> TRUE,
     pgmCapture |-> "none", mixCaptures |-> 0, mixCapture |-> FALSE,
     mixOutgoingFrame |-> FALSE, mixBlendBuffer |-> FALSE,
     released |-> TRUE, src |-> "none",
     attached |-> "b", frozen |-> FALSE, healthCapture |-> "pgmCapture"]

\* BlackBurst.start(fps, onFrame)
BurstStart(w) ==
    [w EXCEPT !.onFrame = TRUE, !.timers = @ + 1, !.intervalId = TRUE]

\* BlackBurst.stop()
BurstStop(w) ==
    [w EXCEPT !.timers = IF w.intervalId THEN @ - 1 ELSE @,
              !.intervalId = FALSE,
              !.onFrame = FALSE]

\* cleanupMix()
CleanupMix(w) ==
    [w EXCEPT !.mixCaptures = IF w.mixCapture THEN @ - 1 ELSE @,
              !.mixCapture = FALSE,
              !.mixOutgoingFrame = FALSE,
              !.mixBlendBuffer = FALSE,
              !.released = TRUE]

\* engine.on('mixStart')
OnMixStart(w) ==
    BurstStop([w EXCEPT !.mixBlendBuffer = TRUE,
                        !.pgmCapture = "store",
                        !.mixCaptures = @ + 1,
                        !.mixCapture = TRUE,
                        !.released = FALSE])

\* engine.on('take'): pgmCapture.destroy(), then a new FrameCapture attached
\* to engine.getPgmWindow(), its frames pushed to the output manager; the
\* HealthServer keeps the capture it was constructed with.
OnTake(w, pgm) ==
    BurstStop([CleanupMix(w) EXCEPT !.pgmCapture = "push",
                                    !.attached = pgm,
                                    !.frozen = FALSE,
                                    !.healthCapture = "destroyed"])

\* engine.on('freeze'): pgmCapture.setFrozen(frozen)
OnFreeze(w, flag) == [w EXCEPT !.frozen = flag]

\* engine.on('clear')
OnClear(w) == BurstStart(CleanupMix(w))

\* The listeners of the main process run on one event.
Listeners(w, e, pgm) ==
    CASE e.type = "mixStart" -> OnMixStart(w)
      [] e.type = "mixCancel" -> CleanupMix(w)
      [] e.type = "take" -> OnTake(w, pgm)
      [] e.type = "clear" -> OnClear(w)
      [] e.type = "freeze" -> OnFreeze(w, e.arg)
      [] OTHER -> w

RECURSIVE Handled(_, _, _)
\* The listeners run on a sequence of events, in order of emission; pgm is
\* what engine.getPgmWindow() returns to them.
Handled(w, evs, pgm) ==
    IF evs = <<>> THEN w
    ELSE Handled(Listeners(w, Head(evs), pgm), Tail(evs), pgm)

\* Bookkeeping common to every step.
Commit(l, others, me) ==
    /\ last' = l
    /\ rt' = RtNext(l)
    /\ mt' = MtNext(l, me)
    /\ calls' = Settle(l, others, me)
    /\ supWatch' = supWatch
    /\ mixWatch' = mixWatch
    /\ sn' = StNext(l)
    /\ fz' = FzNext(l)
    /\ wiring' = IF wiring.on
                 THEN Handled([wiring EXCEPT !.src = "none"], emitted',
                              pgmWindow')
                 ELSE wiring
    /\ UNCHANGED <<captureVars, outputVars, serviceVars>>

\* ------------------------------------------------------------------ Init

InitEngine ==
    /\ state = "idle"
    /\ pvwWindow = NULL
    /\ pgmWindow = NULL
    /\ pvwTemplate = NULL
    /\ pgmTemplate = NULL
    /\ pvwReady = FALSE
    /\ pgmReady = FALSE
    /\ mixing = FALSE
    /\ mixTimeout = NoTimer
    /\ calls = EmptyBag
    /\ started = FALSE
    /\ emitted = <<>>
    /\ last = Step("init", "done", "ok", NoCall)
    /\ rt = RtNone
    /\ mt = MtNone
    /\ fz = FzNone

\* lastFrame = null, and the placeholder for "no frame emitted".
NoFrame == "none"

\* Bitmaps a paint event may deliver; EmptyBitmap has length 0.
Bitmaps == {"F1", "F2", "F3"}

EmptyBitmap == "empty"

\* Math.max(1, Math.round(targetFps / thumbnailFps)) for the defaults 25, 5.
ThumbnailEvery == 5

\* No timestamp: lastFrame is null, or no frame has been emitted.
NoStamp == 0 - 1

\* Timestamps not followed.
StampsOff == [on |-> FALSE, now |-> 0, frame |-> NoStamp,
              prev |-> NoStamp, cur |-> NoStamp]

\* Date.now() in output periods since the capture was attached, the
\* timestamp of lastFrame, and the timestamps of the last two frames emitted.
StampsOn == [StampsOff EXCEPT !.on = TRUE]

\* new FrameCapture()
InitCapture ==
    /\ frozen = FALSE
    /\ lastFrame = NoFrame
    /\ thumbnailCounter = 0
    /\ frameCount = 0
    /\ droppedFrames = 0
    /\ capLast = [op |-> "init", arg |-> NoFrame]
    /\ stamps = StampsOff
    /\ capOut = NoFrame
    /\ lastOut = NoFrame
    /\ refOut = NoFrame

\* Ids under which sinks are registered, in the order the model iterates.
SinkIds == {"A", "B"}

\* No sink under an id.
NoSink == [on |-> FALSE, hasKey |-> FALSE, needsKey |-> "undefined"]

\* OutputDriver objects: hasKey is whether the sink exposes pushKeyFrame,
\* needsKey is the value of its optional needsKeyFrame.
Drivers ==
    {[on |-> TRUE, hasKey |-> FALSE, needsKey |-> "undefined"]}
    \cup {[on |-> TRUE, hasKey |-> TRUE, needsKey |-> v] :
              v \in {"true", "false", "undefined"}}

\* this.keyBuffer = null
NoKey == [alloc |-> FALSE, bytes |-> <<>>]

\* BGRA frames handed to the manager, with their size.
Frames ==
    {[bytes |-> <<10, 20, 30, 40>>, width |-> 1, height |-> 1],
     [bytes |-> <<1, 2, 3, 0, 5, 6, 7, 200>>, width |-> 2, height |-> 1]}

NoInput == [bytes |-> <<>>, width |-> 0, height |-> 0]

\* count === 10
ErrorLimit == 10

\* No pushFrame and no clock tick has been seen: by is the caller of the
\* step, latest the frame pushed last since the clock was started or
\* stopped, n the ticks since that push (counted up to TickCap).
NoCaller == [by |-> "none", latest |-> NoInput, n |-> 0]

TickCap == 2

\* The value of streak for a sink id whose throws are not being counted.
Unwatched == 0 - 1

\* new OutputManager()
InitOutputs ==
    /\ outputs = [id \in SinkIds |-> NoSink]
    /\ keyBuffer = NoKey
    /\ errorCounts = [id \in SinkIds |-> 0]
    /\ sent = <<>>
    /\ outLast = [op |-> "init", frame |-> NoInput, extracted |-> FALSE,
                  reg |-> {}, propagated |-> FALSE]
    /\ streak = [id \in SinkIds |-> Unwatched]
    /\ clockTimer = FALSE
    /\ heldFrame = NoInput
    /\ via = NoCaller

\* Connections a client may open; each gets its own clientId.
Conns == {"c1", "c2"}

\* url.searchParams.get('token'): null when the query has none.
Tokens == {NULL, "secret123", "wrong"}

\* command.id when the message has none
NoId == "undefined"

\* ws.close(4401, 'Unauthorized')
Unauthorized == 4401

\* A connection not made yet.  listening says whether the message and close
\* handlers of the server are attached; code is the close code sent, if any.
NoSocket ==
    [readyState |-> "none", code |-> 0, token |-> NULL, listening |-> FALSE]

\* A WsEvent sent to a session, or (to = "listeners") an event emitted by
\* the server itself.
Event(to, type, id, payload) ==
    [to |-> to, type |-> type, id |-> id, payload |-> payload]

\* Commands whose handler awaits the engine.
Awaited == {"load", "take", "clear"}

\* Texts a client may send: not JSON at all, the JSON texts null and 42, and
\* command objects with or without an id (load also without a payload).
Messages ==
    {[raw |-> k, type |-> NoId, id |-> NoId, payload |-> FALSE] :
        k \in {"garbage", "null", "number"}}
    \cup {[raw |-> "object", type |-> t, id |-> i, payload |-> TRUE] :
            t \in Awaited \cup {"freeze", "status", "next"},
            i \in {NoId, "i1"}}
    \cup {[raw |-> "object", type |-> "load", id |-> i, payload |-> FALSE] :
            i \in {NoId, "i1"}}

NoMessage == [raw |-> "none", type |-> NoId, id |-> NoId, payload |-> FALSE]

\* The step just taken by the server.
Did(op, c, m, ok) == [op |-> op, conn |-> c, msg |-> m, ok |-> ok]

\* new WebSocketServer(engine, port) with every socket still to connect.
InitSockets ==
    /\ clients = {}
    /\ sockets = [c \in Conns |-> NoSocket]
    /\ pendingOps = {}
    /\ srvOut = <<>>
    /\ engineOps = <<>>
    /\ srvLast = Did("init", NULL, NoMessage, TRUE)

\* Nothing read and nothing replied yet.
NoProbe == [engine |-> "idle", fps |-> 0]

NoResponse == [status |-> "none", code |-> 0]

\* No call of blendFrames made.
NoBlend == [src |-> <<>>, dst |-> <<>>, elapsed |-> 0, duration |-> 0,
            f |-> 0, out |-> <<>>, done |-> FALSE]

\* Bytes of a frame buffer.
Bytes == 0..255

\* Bytes the longer buffers are made of.
Extremes == {0, 255}

\* Milliseconds since mixStart at which a frame of the incoming surface
\* arrives.
Elapsed == {0, 1, 25, 49, 50, 250, 499, 500, 700}

\* Pairs of buffers of equal length handed to blendFrames: of one byte, with
\* every value of the one against chosen values of the other, and of MaxLen
\* bytes.
BufferPairs ==
    {<< <<s>>, <<d>> >> : s \in Bytes, d \in {0, 1, 100, 254, 255}}
    \cup {<< <<s>>, <<d>> >> : s \in {0, 1, 100, 254, 255}, d \in Bytes}
    \cup ([1..MaxLen -> Extremes] \X [1..MaxLen -> Extremes])

InitRest ==
    /\ InitCapture /\ InitOutputs
    /\ authToken = NULL /\ InitSockets
    /\ probe = NoProbe /\ response = NoResponse /\ blend = NoBlend

\* The same manager with the throws of one sink id being counted.
InitStreak ==
    /\ InitEngine /\ supWatch = FALSE /\ mixWatch = FALSE /\ sn = StOff /\ InitCapture
    /\ wiring = Unwired
    /\ authToken = NULL /\ InitSockets
    /\ probe = NoProbe /\ response = NoResponse /\ blend = NoBlend
    /\ outputs = [id \in SinkIds |-> NoSink]
    /\ keyBuffer = NoKey
    /\ errorCounts = [id \in SinkIds |-> 0]
    /\ sent = <<>>
    /\ outLast = [op |-> "init", frame |-> NoInput, extracted |-> FALSE,
                  reg |-> {}, propagated |-> FALSE]
    /\ \E w \in SinkIds :
          streak = [id \in SinkIds |-> IF id = w THEN 0 ELSE Unwatched]
    /\ clockTimer = FALSE
    /\ heldFrame = NoInput
    /\ via = NoCaller

Init ==
    /\ InitEngine /\ supWatch = FALSE /\ mixWatch = FALSE /\ sn = StOff /\ InitRest
    /\ wiring = Unwired

\* The same engine, with superseded mixes marked.
InitSup ==
    /\ InitEngine /\ supWatch = TRUE /\ mixWatch = FALSE /\ sn = StOff /\ InitRest
    /\ wiring = Unwired

\* The same engine, with status replies followed.
InitSnap ==
    /\ InitEngine /\ supWatch = FALSE /\ mixWatch = FALSE /\ sn = StNone /\ InitRest
    /\ wiring = Unwired

\* The engine inside the main process: setWindows(pvwWindow, pgmWindow)
\* done, the listeners attached.
InitWiring ==
    /\ state = "idle"
    /\ pvwWindow = "a"
    /\ pgmWindow = "b"
    /\ pvwTemplate = NULL
    /\ pgmTemplate = NULL
    /\ pvwReady = FALSE
    /\ pgmReady = FALSE
    /\ mixing = FALSE
    /\ mixTimeout = NoTimer
    /\ calls = EmptyBag
    /\ started = FALSE
    /\ emitted = <<>>
    /\ last = Step("init", "done", "ok", NoCall)
    /\ rt = RtNone
    /\ mt = MtNone
    /\ fz = FzNone
    /\ supWatch = FALSE /\ mixWatch = FALSE /\ sn = StOff /\ InitRest
    /\ wiring = Wired

\* setWindows(pvw, pgm).  The main process attaches the two offscreen
\* surfaces once, before the control server accepts commands; the tests
\* re-attach (possibly null) before issuing the command under test.
SetWindows(pvw, pgm) ==
    /\ ~started
    /\ pvwWindow' = pvw
    /\ pgmWindow' = pgm
    /\ emitted' = <<>>
    /\ UNCHANGED <<state, pvwTemplate, pgmTemplate, pvwReady, pgmReady,
                   mixing, mixTimeout, started>>
    /\ Commit(Step("setWindows", "done", "ok", NoCall), calls, NoCall)

\* ------------------------------------------------------------------ load

\* load(payload), synchronous prefix: the slot and the ready-flag are
\* written before the attachment check; then await __loadTemplate on PVW.
LoadCall(P) ==
    /\ HasFree
    /\ started' = TRUE
    /\ pvwTemplate' = P
    /\ pvwReady' = FALSE
    /\ emitted' = <<>>
    /\ UNCHANGED <<state, pvwWindow, pgmWindow, pgmTemplate, pgmReady,
                   mixing, mixTimeout>>
    /\ IF pvwWindow = NULL
       THEN Commit(Step("load", "call", "error", NoCall), calls, NoCall)
       ELSE Commit(Step("load", "call", "pending", NoCall), calls,
                   Call("load_doc", 0))

\* __loadTemplate settled: on success go on to await __play on PVW, on
\* rejection load() rejects.
LoadDocDone(c, ok) ==
    /\ c.pc = "load_doc"
    /\ emitted' = <<>>
    /\ UNCHANGED <<engineVars, started>>
    /\ IF ok
       THEN Commit(Step("load", "step", "pending", c), BagWithout(calls, c),
                   [c EXCEPT !.pc = "load_play"])
       ELSE Commit(Step("load", "done", "error", c), BagWithout(calls, c),
                   NoCall)

\* __play settled: pvwReady = true and setState('pvw-loaded'), whatever the
\* state was.
LoadPlayDone(c, ok) ==
    /\ c.pc = "load_play"
    /\ IF ok
       THEN /\ pvwReady' = TRUE
            /\ state' = "pvw-loaded"
            /\ emitted' = << StateEv("pvw-loaded", pvwTemplate, pgmTemplate,
                                     TRUE, pgmReady, mixing) >>
       ELSE /\ UNCHANGED <<pvwReady, state>>
            /\ emitted' = <<>>
    /\ UNCHANGED <<pvwWindow, pgmWindow, pvwTemplate, pgmTemplate, pgmReady,
                   mixing, mixTimeout, started>>
    /\ Commit(Step("load", "done", IF ok THEN "ok" ELSE "error", c),
              BagWithout(calls, c), NoCall)

\* ------------------------------------------------------------------ take

\* take() that only checks the attachment of the surfaces.
TakeGuardFails_NoReady ==
    pvwWindow = NULL \/ pgmWindow = NULL

\* The two precondition checks at the head of take().
TakeGuardFails ==
    \/ pvwWindow = NULL \/ pgmWindow = NULL
    \/ ~pvwReady \/ pvwTemplate = NULL

\* clearTimeout(this.mixTimeout): the cancelled timer never fires and the
\* promise of the takeMix that armed it never settles.
CancelledCalls ==
    IF mixTimeout # NoTimer /\ \E c \in InFlight : c.h = mixTimeout
    THEN BagWithout(calls, CHOOSE c \in InFlight : c.h = mixTimeout)
    ELSE calls

\* A swap in take() that leaves pvwReady as it was.
TakeSwap_KeepReady ==
    /\ pgmWindow' = pvwWindow
    /\ pgmTemplate' = pvwTemplate
    /\ pgmReady' = TRUE
    /\ pvwWindow' = pgmWindow
    /\ pvwTemplate' = pgmTemplate
    /\ pvwReady' = pvwReady

\* A swap in take() that relabels only one surface.
TakeSwap_DupWindow ==
    /\ pgmWindow' = pvwWindow
    /\ pgmTemplate' = pvwTemplate
    /\ pgmReady' = TRUE
    /\ pvwWindow' = pvwWindow
    /\ pvwTemplate' = pgmTemplate
    /\ pvwReady' = FALSE

\* "Swap references" in take().
TakeSwap ==
    /\ pgmWindow' = pvwWindow
    /\ pgmTemplate' = pvwTemplate
    /\ pgmReady' = TRUE
    /\ pvwWindow' = pgmWindow
    /\ pvwTemplate' = pgmTemplate
    /\ pvwReady' = FALSE

\* take(), synchronous prefix: checks, cancel of a tracked mix timer, swap;
\* then await __play on the new PGM.
TakeCall ==
    /\ HasFree
    /\ started' = TRUE
    /\ emitted' = <<>>
    /\ IF TakeGuardFails
       THEN /\ UNCHANGED engineVars
            /\ Commit(Step("take", "call", "error", NoCall), calls, NoCall)
       ELSE /\ mixTimeout' = NoTimer
            /\ mixing' = (IF mixTimeout # NoTimer THEN FALSE ELSE mixing)
            /\ TakeSwap
            /\ UNCHANGED state
            /\ Commit(Step("take", "call", "pending", NoCall), CancelledCalls,
                      [Call("take_play", 0)
                          EXCEPT !.P = Remembered(pvwTemplate),
                                 !.incoming = Remembered(pvwWindow)])

\* __play on the new PGM settled: a rejection propagates out of take().
TakePlayDone(c, ok) ==
    /\ c.pc = "take_play"
    /\ emitted' = <<>>
    /\ UNCHANGED <<engineVars, started>>
    /\ IF ok
       THEN Commit(Step("take", "step", "pending", c), BagWithout(calls, c),
                   [c EXCEPT !.pc = "take_stop"])
       ELSE Commit(Step("take", "done", "error", c), BagWithout(calls, c),
                   NoCall)

\* __stop on the new PVW settled (a rejection is caught):
\* setState('on-air'), emit('take').
TakeStopDone(c) ==
    /\ c.pc = "take_stop"
    /\ state' = "on-air"
    /\ emitted' = << StateEv("on-air", pvwTemplate, pgmTemplate,
                             pvwReady, pgmReady, mixing),
                     Ev("take", NULL) >>
    /\ UNCHANGED <<pvwWindow, pgmWindow, pvwTemplate, pgmTemplate, pvwReady,
                   pgmReady, mixing, mixTimeout, started>>
    /\ Commit(Step("take", "done", "ok", c), BagWithout(calls, c), NoCall)

\* --------------------------------------------------------------- takeMix

\* The two precondition checks at the head of takeMix().
TakeMixGuardFails ==
    \/ pvwWindow = NULL \/ pgmWindow = NULL
    \/ ~pvwReady \/ pvwTemplate = NULL

\* takeMix(d), synchronous prefix: checks, cancel of a tracked mix timer
\* (mixing is not reset here), mixing = true; then await __play on PVW.
TakeMixCall(d) ==
    /\ HasFree
    /\ started' = TRUE
    /\ emitted' = <<>>
    /\ IF TakeMixGuardFails
       THEN /\ UNCHANGED engineVars
            /\ Commit(Step("takeMix", "call", "error", NoCall), calls, NoCall)
       ELSE /\ mixTimeout' = NoTimer
            /\ mixing' = TRUE
            /\ UNCHANGED <<state, pvwWindow, pgmWindow, pvwTemplate,
                           pgmTemplate, pvwReady, pgmReady>>
            /\ Commit(Step("takeMix", "call", "pending", NoCall),
                      CancelledCalls,
                      [Call("mix_play", d) EXCEPT !.P = Remembered(pvwTemplate)])

\* __play on PVW settled.  On success: emit('mixStart', ...), emitState(),
\* and arm the single-shot timer, whose handle overwrites mixTimeout.  On
\* rejection takeMix() rejects and nothing is undone.
MixPlayDone(c, ok) ==
    /\ c.pc = "mix_play"
    /\ UNCHANGED <<state, pvwWindow, pgmWindow, pvwTemplate, pgmTemplate,
                   pvwReady, pgmReady, mixing, started>>
    /\ IF ok
       THEN /\ mixTimeout' = NewHandle
            /\ emitted' = << Ev("mixStart", [duration |-> c.dur,
                                             outgoing |-> pgmWindow,
                                             incoming |-> pvwWindow]),
                             StateEv(state, pvwTemplate, pgmTemplate,
                                     pvwReady, pgmReady, mixing) >>
            /\ Commit(Step("takeMix", "step", "pending", c),
                      BagWithout(calls, c),
                      [c EXCEPT !.pc = "mix_timer", !.dur = 0, !.h = NewHandle,
                                !.incoming = Remembered(pvwWindow)])
       ELSE /\ mixTimeout' = mixTimeout
            /\ emitted' = <<>>
            /\ Commit(Step("takeMix", "done", "error", c),
                      BagWithout(calls, c), NoCall)

\* A timer callback that swaps the surfaces but not the template slots.
MixSwap_KeepTemplate ==
    /\ pgmWindow' = pvwWindow
    /\ pgmTemplate' = pgmTemplate
    /\ pgmReady' = TRUE
    /\ pvwWindow' = pgmWindow
    /\ pvwTemplate' = pvwTemplate
    /\ pvwReady' = FALSE

\* "Swap references" in the timer callback.
MixSwap ==
    /\ pgmWindow' = pvwWindow
    /\ pgmTemplate' = pvwTemplate
    /\ pgmReady' = TRUE
    /\ pvwWindow' = pgmWindow
    /\ pvwTemplate' = pgmTemplate
    /\ pvwReady' = FALSE

\* The timer armed by c fires: mixing = false, mixTimeout = null (whichever
\* timer it holds), swap; then await __stop on the new PVW.
MixFire(c) ==
    /\ c.pc = "mix_timer"
    /\ mixing' = FALSE
    /\ mixTimeout' = NoTimer
    /\ MixSwap
    /\ emitted' = <<>>
    /\ UNCHANGED <<state, started>>
    /\ Commit(Step("takeMix", "fire", "pending", c), BagWithout(calls, c),
              [c EXCEPT !.pc = "mix_stop", !.h = NoTimer])

\* __stop settled in the timer callback (a rejection is caught):
\* setState('on-air'), emit('take'), resolve().
MixStopDone(c) ==
    /\ c.pc = "mix_stop"
    /\ state' = "on-air"
    /\ emitted' = << StateEv("on-air", pvwTemplate, pgmTemplate,
                             pvwReady, pgmReady, mixing),
                     Ev("take", NULL) >>
    /\ UNCHANGED <<pvwWindow, pgmWindow, pvwTemplate, pgmTemplate, pvwReady,
                   pgmReady, mixing, mixTimeout, started>>
    /\ Commit(Step("takeMix", "done", "ok", c), BagWithout(calls, c), NoCall)

\* ----------------------------------------------------------------- clear

\* The head of clear(): emit('mixCancel') when a tracked timer is cancelled.
ClearCancelEvents ==
    IF mixTimeout # NoTimer THEN << Ev("mixCancel", NULL) >> ELSE <<>>

\* The tail of clear(): pgmTemplate = null, pgmReady = false,
\* setState('idle'), emit('clear').
ClearTail(pre, mx) ==
    /\ pgmTemplate' = NULL
    /\ pgmReady' = FALSE
    /\ state' = "idle"
    /\ emitted' = pre \o << StateEv("idle", pvwTemplate, NULL,
                                    pvwReady, FALSE, mx),
                            Ev("clear", NULL) >>

\* clear(), synchronous prefix: cancel of a tracked mix timer with
\* emit('mixCancel'); then await __clear on PGM when one is attached,
\* otherwise run to the end.
ClearCall ==
    /\ HasFree
    /\ started' = TRUE
    /\ mixTimeout' = NoTimer
    /\ mixing' = (IF mixTimeout # NoTimer THEN FALSE ELSE mixing)
    /\ UNCHANGED <<pvwWindow, pgmWindow, pvwTemplate, pvwReady>>
    /\ IF pgmWindow # NULL
       THEN /\ emitted' = ClearCancelEvents
            /\ UNCHANGED <<state, pgmTemplate, pgmReady>>
            /\ Commit(Step("clear", "call", "pending", NoCall), CancelledCalls,
                      Call("clear_hook", 0))
       ELSE /\ ClearTail(ClearCancelEvents, mixing')
            /\ Commit(Step("clear", "call", "ok", NoCall), CancelledCalls,
                      NoCall)

\* __clear on PGM settled (a rejection is ignored).
ClearHookDone(c) ==
    /\ c.pc = "clear_hook"
    /\ ClearTail(<<>>, mixing)
    /\ UNCHANGED <<pvwWindow, pgmWindow, pvwTemplate, pvwReady,
                   mixing, mixTimeout, started>>
    /\ Commit(Step("clear", "done", "ok", c), BagWithout(calls, c), NoCall)

\* ---------------------------------------------------------------- freeze

\* A freeze() that never leaves frozen.
Freeze_OneWay ==
    /\ started' = TRUE
    /\ state' = (IF state = "on-air" THEN "frozen" ELSE state)
    /\ emitted' = (IF state = "on-air"
                   THEN << StateEv(state', pvwTemplate, pgmTemplate,
                                   pvwReady, pgmReady, mixing) >>
                   ELSE <<>>)
                  \o << Ev("freeze", state' = "frozen") >>
    /\ UNCHANGED <<pvwWindow, pgmWindow, pvwTemplate, pgmTemplate, pvwReady,
                   pgmReady, mixing, mixTimeout>>
    /\ Commit(Step("freeze", "done", "ok", NoCall), calls, NoCall)

\* freeze(): toggles on-air <-> frozen; emit('freeze', state === 'frozen')
\* in every state.
Freeze ==
    /\ started' = TRUE
    /\ state' = (CASE state = "on-air" -> "frozen"
                   [] state = "frozen" -> "on-air"
                   [] OTHER -> state)
    /\ emitted' = (IF state \in {"on-air", "frozen"}
                   THEN << StateEv(state', pvwTemplate, pgmTemplate,
                                   pvwReady, pgmReady, mixing) >>
                   ELSE <<>>)
                  \o << Ev("freeze", state' = "frozen") >>
    /\ UNCHANGED <<pvwWindow, pgmWindow, pvwTemplate, pgmTemplate, pvwReady,
                   pgmReady, mixing, mixTimeout>>
    /\ Commit(Step("freeze", "done", "ok", NoCall), calls, NoCall)

\* ------------------------------------------------------------- updatePgm

\* The early return at the head of updatePgm().
UpdatePgmReturns == pgmWindow = NULL \/ state = "idle"

\* updatePgm(variables), synchronous prefix: early return, replacement of
\* the variables of a non-null pgmTemplate; then await __updateFields on PGM.
UpdatePgmCall ==
    /\ HasFree
    /\ started' = TRUE
    /\ emitted' = <<>>
    /\ UNCHANGED <<state, pvwWindow, pgmWindow, pvwTemplate, pvwReady,
                   pgmReady, mixing, mixTimeout>>
    /\ IF UpdatePgmReturns
       THEN /\ UNCHANGED pgmTemplate
            /\ Commit(Step("updatePgm", "call", "ok", NoCall), calls, NoCall)
       ELSE /\ pgmTemplate' = (IF pgmTemplate # NULL
                               THEN SetVariables(pgmTemplate) ELSE NULL)
            /\ Commit(Step("updatePgm", "call", "pending", NoCall), calls,
                      Call("upd_hook", 0))

\* __updateFields on PGM settled: emitState() on success, rejection of
\* updatePgm() otherwise.
UpdatePgmHookDone(c, ok) ==
    /\ c.pc = "upd_hook"
    /\ emitted' = (IF ok THEN << StateEv(state, pvwTemplate, pgmTemplate,
                                         pvwReady, pgmReady, mixing) >>
                   ELSE <<>>)
    /\ UNCHANGED <<engineVars, started>>
    /\ Commit(Step("updatePgm", "done", IF ok THEN "ok" ELSE "error", c),
              BagWithout(calls, c), NoCall)

\* -------------------------------------------------------- crash recovery

\* setupCrashRecovery(pvwWindow, 'PVW'); setupCrashRecovery(pgmWindow, 'PGM'):
\* the label is bound to the surface when the handler is installed ("a" is
\* the surface created as PVW, "b" the one created as PGM).
CrashLabel(w) == IF w = "a" THEN "PVW" ELSE "PGM"

\* render-process-gone on surface w: when the handler's label is PGM and
\* the engine is on-air, engine.clear() is called and not awaited (its
\* synchronous prefix runs here); then the snapshot is broadcast.
RenderGone(w) ==
    /\ w \in {pvwWindow, pgmWindow} \ {NULL}
    /\ started' = TRUE
    /\ UNCHANGED <<pvwWindow, pgmWindow, pvwTemplate, pvwReady>>
    /\ IF CrashLabel(w) = "PGM" /\ state = "on-air"
       THEN /\ HasFree
            /\ mixTimeout' = NoTimer
            /\ mixing' = (IF mixTimeout # NoTimer THEN FALSE ELSE mixing)
            /\ IF pgmWindow # NULL
               THEN /\ UNCHANGED <<state, pgmTemplate, pgmReady>>
                    /\ emitted' = << Ev("gone", w) >> \o ClearCancelEvents
                                   \o << Ev("broadcast",
                                            Snapshot(state, pvwTemplate,
                                                     pgmTemplate, pvwReady,
                                                     pgmReady, mixing')) >>
                    /\ Commit(Step("gone", "call", "pending", NoCall),
                              CancelledCalls, Call("clear_hook", 0))
               ELSE /\ pgmTemplate' = NULL
                    /\ pgmReady' = FALSE
                    /\ state' = "idle"
                    /\ emitted' = << Ev("gone", w) >> \o ClearCancelEvents
                                   \o << StateEv("idle", pvwTemplate, NULL,
                                                 pvwReady, FALSE, mixing'),
                                         Ev("clear", NULL),
                                         Ev("broadcast",
                                            Snapshot("idle", pvwTemplate, NULL,
                                                     pvwReady, FALSE, mixing')) >>
                    /\ Commit(Step("gone", "call", "ok", NoCall),
                              CancelledCalls, NoCall)
       ELSE /\ UNCHANGED <<state, pgmTemplate, pgmReady, mixing, mixTimeout>>
            /\ emitted' = << Ev("gone", w), Ev("broadcast", SnapNow) >>
            /\ Commit(Step("gone", "call", "skip", NoCall), calls, NoCall)

\* ---------------------------------------------------------------- status

\* The control server's status command: replies with getSnapshot() at once,
\* whatever engine calls are suspended.
Status ==
    /\ started
    /\ emitted' = << Ev("reply", SnapNow) >>
    /\ UNCHANGED <<engineVars, started>>
    /\ Commit(Step("status", "done", "ok", NoCall), calls, NoCall)

\* ------------------------------------------------------------------ spec

Next ==
    \/ \E pvw \in {NULL, "a"}, pgm \in {NULL, "b"} : SetWindows(pvw, pgm)
    \/ \E P \in Payloads : LoadCall(P)
    \/ \E c \in InFlight, ok \in BOOLEAN : LoadDocDone(c, ok)
    \/ \E c \in InFlight, ok \in BOOLEAN : LoadPlayDone(c, ok)
    \/ TakeCall
    \/ \E c \in InFlight, ok \in BOOLEAN : TakePlayDone(c, ok)
    \/ \E c \in InFlight : TakeStopDone(c)
    \/ \E d \in Durations : TakeMixCall(d)
    \/ \E c \in InFlight, ok \in BOOLEAN : MixPlayDone(c, ok)
    \/ \E c \in InFlight : MixFire(c)
    \/ \E c \in InFlight : MixStopDone(c)
    \/ ClearCall
    \/ \E c \in InFlight : ClearHookDone(c)
    \/ Freeze

Spec == Init /\ [][Next]_vars

SpecSup == InitSup /\ [][Next]_vars

\* The same engine, each take and mix remembering what it started with.
InitMix ==
    /\ InitEngine /\ supWatch = FALSE /\ mixWatch = TRUE /\ sn = StOff
    /\ InitRest /\ wiring = Unwired

SpecMix == InitMix /\ [][Next]_vars

\* The engine driven by the control server's commands above together with
\* status, updatePgm and the crash handlers of the main process.
NextAll ==
    \/ Next
    \/ Status
    \/ \E w \in {"a", "b"} : RenderGone(w)
    \/ UpdatePgmCall
    \/ \E c \in InFlight, ok \in BOOLEAN : UpdatePgmHookDone(c, ok)

SpecAll == Init /\ [][NextAll]_vars

SpecSnap == InitSnap /\ [][NextAll]_vars

\* ------------------------------------- main process: the frame sources

\* The engine, its calls in flight and its observers, without the wiring.
engineRun == <<state, pvwWindow, pgmWindow, pvwTemplate, pgmTemplate,
               pvwReady, pgmReady, mixing, mixTimeout,
               calls, started, emitted, last, rt, mt, supWatch, mixWatch, sn, fz>>

\* pgmCapture emits 'frame': its listener pushes the frame to the output
\* manager (after a take), copies it into mixOutgoingFrame (after a
\* mixStart), or does not exist (at startup).
PgmFrame ==
    /\ wiring.on
    /\ wiring' = [wiring EXCEPT
                     !.src = IF wiring.pgmCapture = "push"
                             THEN "pgm" ELSE "none",
                     !.mixOutgoingFrame = IF wiring.pgmCapture = "store"
                                          THEN TRUE ELSE @]
    /\ UNCHANGED <<engineRun, captureVars, outputVars, serviceVars>>

\* A mix capture emits 'frame': the blend, or the incoming frame, is pushed.
MixFrame ==
    /\ wiring.on
    /\ wiring.mixCaptures > 0
    /\ wiring' = [wiring EXCEPT !.src = "mix"]
    /\ UNCHANGED <<engineRun, captureVars, outputVars, serviceVars>>

\* An interval timer of blackBurst fires: onFrame is called when set.
BurstFire ==
    /\ wiring.on
    /\ wiring.timers > 0
    /\ wiring' = [wiring EXCEPT
                     !.src = IF wiring.onFrame THEN "burst" ELSE "none"]
    /\ UNCHANGED <<engineRun, captureVars, outputVars, serviceVars>>

\* The engine as the main process runs it: one payload, one duration,
\* hooks that succeed.
NextWired ==
    \/ LoadCall("P1")
    \/ \E c \in InFlight : LoadDocDone(c, TRUE)
    \/ \E c \in InFlight : LoadPlayDone(c, TRUE)
    \/ TakeCall
    \/ \E c \in InFlight : TakePlayDone(c, TRUE)
    \/ \E c \in InFlight : TakeStopDone(c)
    \/ TakeMixCall(500)
    \/ \E c \in InFlight : MixPlayDone(c, TRUE)
    \/ \E c \in InFlight : MixFire(c)
    \/ \E c \in InFlight : MixStopDone(c)
    \/ ClearCall
    \/ \E c \in InFlight : ClearHookDone(c)
    \/ Freeze

\* The engine's commands with the frame sources of the main process.
NextWiring ==
    \/ /\ NextWired
       /\ wiring'.timers <= MaxTimers
       /\ wiring'.mixCaptures <= MaxMix
    \/ PgmFrame
    \/ MixFrame
    \/ BurstFire

SpecWiring == InitWiring /\ [][NextWiring]_vars

\* The same engine and listeners with a play hook of take() that may
\* reject, the frame sources left out.
NextFaulty ==
    \/ /\ NextWired
       /\ wiring'.timers <= MaxTimers
       /\ wiring'.mixCaptures <= MaxMix
    \/ \E c \in InFlight : TakePlayDone(c, FALSE)

SpecFaulty == InitWiring /\ [][NextFaulty]_vars

\* ---------------------------------------------------------- FrameCapture

\* paintHandler: nothing while frozen; an empty bitmap counts as dropped;
\* otherwise the bitmap is copied into the frame buffer, lastFrame is
\* replaced and every ThumbnailEvery-th paint produces a thumbnail.
Paint(b) ==
    /\ capLast' = [op |-> "paint", arg |-> b]
    /\ capOut' = NoFrame
    /\ UNCHANGED <<frozen, frameCount, lastOut, refOut>>
    /\ IF frozen
       THEN UNCHANGED <<lastFrame, thumbnailCounter, droppedFrames, stamps>>
       ELSE IF b = EmptyBitmap
            THEN /\ droppedFrames < MaxCount
                 /\ droppedFrames' = droppedFrames + 1
                 /\ UNCHANGED <<lastFrame, thumbnailCounter, stamps>>
            ELSE /\ lastFrame' = b
                 /\ stamps' = (IF stamps.on
                                THEN [stamps EXCEPT !.frame = stamps.now]
                                ELSE stamps)
                 /\ thumbnailCounter' =
                        (IF thumbnailCounter + 1 >= ThumbnailEvery
                         THEN 0 ELSE thumbnailCounter + 1)
                 /\ UNCHANGED droppedFrames
    /\ UNCHANGED <<engineAll, outputVars, serviceVars>>

\* The timestamps after the output interval has fired: one output period
\* has passed since it fired last, and the frame emitted carries the
\* timestamp lastFrame was given by its paint.
Ticked(s) ==
    IF ~s.on THEN s
    ELSE IF lastFrame # NoFrame
         THEN [s EXCEPT !.now = @ + 1, !.prev = s.cur, !.cur = s.frame]
         ELSE [s EXCEPT !.now = @ + 1]

\* The output interval fires: emit('frame', lastFrame) when there is one.
Tick ==
    /\ capLast' = [op |-> "tick", arg |-> NoFrame]
    /\ stamps.now < MaxNow
    /\ stamps' = Ticked(stamps)
    /\ UNCHANGED <<frozen, lastFrame, thumbnailCounter, droppedFrames, refOut>>
    /\ IF lastFrame # NoFrame
       THEN /\ frameCount < MaxCount
            /\ frameCount' = frameCount + 1
            /\ capOut' = lastFrame
            /\ lastOut' = lastFrame
       ELSE /\ capOut' = NoFrame
            /\ UNCHANGED <<frameCount, lastOut>>
    /\ UNCHANGED <<engineAll, outputVars, serviceVars>>

\* setFrozen(f)
SetFrozen(f) ==
    /\ frozen' = f
    /\ capLast' = [op |-> "setFrozen", arg |-> NoFrame]
    /\ capOut' = NoFrame
    /\ refOut' = (IF f /\ ~frozen THEN lastOut ELSE refOut)
    /\ UNCHANGED <<lastFrame, thumbnailCounter, frameCount, droppedFrames,
                   lastOut, stamps>>
    /\ UNCHANGED <<engineAll, outputVars, serviceVars>>

NextCapture ==
    \/ \E b \in Bitmaps \cup {EmptyBitmap} : Paint(b)
    \/ Tick
    \/ \E f \in BOOLEAN : SetFrozen(f)

SpecCapture == Init /\ [][NextCapture]_vars

\* The same capture, with Date.now() and the timestamps of its frames
\* followed.
InitStamps ==
    /\ InitEngine /\ supWatch = FALSE /\ mixWatch = FALSE /\ sn = StOff
    /\ wiring = Unwired
    /\ frozen = FALSE
    /\ lastFrame = NoFrame
    /\ thumbnailCounter = 0
    /\ frameCount = 0
    /\ droppedFrames = 0
    /\ capLast = [op |-> "init", arg |-> NoFrame]
    /\ stamps = StampsOn
    /\ capOut = NoFrame
    /\ lastOut = NoFrame
    /\ refOut = NoFrame
    /\ InitOutputs
    /\ authToken = NULL /\ InitSockets
    /\ probe = NoProbe /\ response = NoResponse /\ blend = NoBlend

SpecStamps == InitStamps /\ [][NextCapture]_vars

\* --------------------------------------------------------- OutputManager

\* addOutput(id, output)
AddOutput(id, o) ==
    /\ outputs' = [outputs EXCEPT ![id] = o]
    /\ sent' = <<>>
    /\ outLast' = [op |-> "addOutput", frame |-> NoInput, extracted |-> FALSE,
                   reg |-> {}, propagated |-> FALSE]
    /\ streak' = [streak EXCEPT ![id] = IF @ = Unwatched THEN @ ELSE 0]
    /\ via' = [via EXCEPT !.by = "none"]
    /\ UNCHANGED <<keyBuffer, errorCounts, clockTimer, heldFrame>>
    /\ UNCHANGED <<engineAll, captureVars, serviceVars>>

\* removeOutput(id): destroy() and delete when a sink is registered.
RemoveOutput(id) ==
    /\ outputs' = [outputs EXCEPT ![id] = NoSink]
    /\ sent' = (IF outputs[id].on
                THEN << [id |-> id, fn |-> "destroy", buf |-> <<>>,
                         width |-> 0, height |-> 0] >>
                ELSE <<>>)
    /\ outLast' = [op |-> "removeOutput", frame |-> NoInput,
                   extracted |-> FALSE, reg |-> {}, propagated |-> FALSE]
    /\ streak' = [streak EXCEPT ![id] = IF @ = Unwatched THEN @ ELSE 0]
    /\ via' = [via EXCEPT !.by = "none"]
    /\ UNCHANGED <<keyBuffer, errorCounts, clockTimer, heldFrame>>
    /\ UNCHANGED <<engineAll, captureVars, serviceVars>>

\* The first loop of distributeFrame: does any sink need a key frame?
NeedsKey ==
    \E id \in SinkIds :
        outputs[id].on /\ outputs[id].hasKey /\ outputs[id].needsKey # "false"

\* A key that copies the alpha byte into all four bytes of a pixel.
ExtractKey_AlphaKept(bgra, n) ==
    [i \in 1..(4 * n) |->
        LET a == 4 * ((i - 1) \div 4) + 4
        IN  IF a \in DOMAIN bgra THEN bgra[a] ELSE 0]

\* The extraction loop: B = G = R = alpha, A = 255, for n pixels (a byte
\* read past the end of the input is stored as 0).
ExtractKey(bgra, n) ==
    [i \in 1..(4 * n) |->
        IF i % 4 = 0
        THEN 255
        ELSE LET a == 4 * ((i - 1) \div 4) + 4
             IN  IF a \in DOMAIN bgra THEN bgra[a] ELSE 0]

\* this.keyBuffer after the extraction step: rewritten when a key is
\* needed, left as it was otherwise.
KeyAfter(f) ==
    IF NeedsKey
    THEN [alloc |-> TRUE, bytes |-> ExtractKey(f.bytes, f.width * f.height)]
    ELSE keyBuffer

\* A routing loop without try/catch: a throw ends the distribution.
Reached_NoCatch(id, T) == id = "A" \/ T["A"] = "none"

\* The routing loop reaches every sink: each iteration has its own
\* try/catch.
Reached(id, T) == TRUE

\* The calls the routing loop makes on sink id: pushFrame, then pushKeyFrame
\* when the sink exposes it and a key buffer exists, unless pushFrame threw.
SinkCalls(id, f, key, T) ==
    IF ~outputs[id].on \/ ~Reached(id, T)
    THEN <<>>
    ELSE << [id |-> id, fn |-> "pushFrame", buf |-> f.bytes,
             width |-> f.width, height |-> f.height] >>
         \o (IF T[id] # "pushFrame" /\ outputs[id].hasKey /\ key.alloc
             THEN << [id |-> id, fn |-> "pushKeyFrame", buf |-> key.bytes,
                      width |-> f.width, height |-> f.height] >>
             ELSE <<>>)

\* A catch that counts a throw of pushFrame only.
Threw_PushFrameOnly(id, key, T) ==
    /\ outputs[id].on
    /\ Reached(id, T)
    /\ T[id] = "pushFrame"

\* Whether one of those calls threw.
Threw(id, key, T) ==
    /\ outputs[id].on
    /\ Reached(id, T)
    /\ \/ T[id] = "pushFrame"
       \/ T[id] = "pushKeyFrame" /\ outputs[id].hasKey /\ key.alloc

\* Whether a call made on sink id was one in which T makes the sink throw.
ThrewIn(id, T, made) ==
    \E i \in DOMAIN made : made[i].id = id /\ made[i].fn = T[id]

\* The distributions in a row, since it was registered, in which sink id
\* threw; it stays as it is once the sink is no longer registered.
StreakNext(id, T, made) ==
    IF ~outputs[id].on \/ streak[id] = Unwatched THEN streak[id]
    ELSE IF ThrewIn(id, T, made) THEN streak[id] + 1 ELSE 0

\* distributeFrame(bgra, size); T says in which call, if any, each sink
\* throws this time.  outLast records the input, whether the extraction loop
\* ran, the sinks registered at the start and whether an exception left the
\* routing loop.  The caller (pushFrame or the clock) sets clockVars.
DistributeFrame(f, T) ==
    LET key == KeyAfter(f)
        count(id) == IF Threw(id, key, T)
                     THEN errorCounts[id] + 1 ELSE errorCounts[id]
        toRemove == {id \in SinkIds : Threw(id, key, T) /\ count(id) = ErrorLimit}
        gone(id) == IF id \in toRemove
                    THEN << [id |-> id, fn |-> "destroy", buf |-> <<>>,
                             width |-> 0, height |-> 0] >>
                    ELSE <<>>
    IN  /\ keyBuffer' = key
        /\ errorCounts' = [id \in SinkIds |->
                              IF id \in toRemove THEN 0 ELSE count(id)]
        /\ outputs' = [id \in SinkIds |->
                          IF id \in toRemove THEN NoSink ELSE outputs[id]]
        /\ sent' = SinkCalls("A", f, key, T) \o SinkCalls("B", f, key, T)
                   \o gone("A") \o gone("B")
        /\ outLast' = [op |-> "distribute", frame |-> f,
                       extracted |-> NeedsKey,
                       reg |-> {id \in SinkIds : outputs[id].on},
                       propagated |-> \E id \in SinkIds :
                                         outputs[id].on /\ ~Reached(id, T)]
        /\ streak' = [id \in SinkIds |->
                         StreakNext(id, T, SinkCalls("A", f, key, T)
                                           \o SinkCalls("B", f, key, T))]
        /\ UNCHANGED <<engineAll, captureVars, serviceVars>>

\* What each sink does when called: throw in pushFrame, in pushKeyFrame, or
\* not at all.
Throws == [SinkIds -> {"none", "pushFrame", "pushKeyFrame"}]

\* The same with only the sinks in S throwing.
ThrowsOf(S) == {T \in Throws : \A id \in SinkIds \ S : T[id] = "none"}

\* stopClock() that forgets to drop the held frame.
StopClock_KeepHeld ==
    /\ clockTimer' = FALSE
    /\ heldFrame' = heldFrame
    /\ via' = NoCaller
    /\ sent' = <<>>
    /\ outLast' = [op |-> "stopClock", frame |-> NoInput,
                   extracted |-> FALSE, reg |-> {}, propagated |-> FALSE]
    /\ UNCHANGED <<outputs, keyBuffer, errorCounts, streak>>
    /\ UNCHANGED <<engineAll, captureVars, serviceVars>>

\* stopClock(): clear the interval, drop the held frame and its size.
StopClock ==
    /\ clockTimer' = FALSE
    /\ heldFrame' = NoInput
    /\ via' = NoCaller
    /\ sent' = <<>>
    /\ outLast' = [op |-> "stopClock", frame |-> NoInput,
                   extracted |-> FALSE, reg |-> {}, propagated |-> FALSE]
    /\ UNCHANGED <<outputs, keyBuffer, errorCounts, streak>>
    /\ UNCHANGED <<engineAll, captureVars, serviceVars>>

\* startClock(fps): stopClock(), then set the interval.
StartClock ==
    /\ clockTimer' = TRUE
    /\ heldFrame' = NoInput
    /\ via' = NoCaller
    /\ sent' = <<>>
    /\ outLast' = [op |-> "startClock", frame |-> NoInput,
                   extracted |-> FALSE, reg |-> {}, propagated |-> FALSE]
    /\ UNCHANGED <<outputs, keyBuffer, errorCounts, streak>>
    /\ UNCHANGED <<engineAll, captureVars, serviceVars>>

\* pushFrame(bgra, size): with the clock running the frame is copied into
\* the held buffer, otherwise it is distributed at once.
PushFrame(f, T) ==
    /\ via' = [by |-> "pushFrame", latest |-> f, n |-> 0]
    /\ IF clockTimer
       THEN /\ heldFrame' = f
            /\ sent' = <<>>
            /\ outLast' = [op |-> "hold", frame |-> f, extracted |-> FALSE,
                           reg |-> {}, propagated |-> FALSE]
            /\ UNCHANGED <<outputs, keyBuffer, errorCounts, streak,
                           clockTimer>>
            /\ UNCHANGED <<engineAll, captureVars, serviceVars>>
       ELSE /\ DistributeFrame(f, T)
            /\ UNCHANGED <<clockTimer, heldFrame>>

\* The interval callback of startClock: distribute the held frame when
\* there is one.
ClockTick(T) ==
    /\ clockTimer
    /\ via' = [via EXCEPT !.by = "tick",
                          !.n = IF @ < TickCap THEN @ + 1 ELSE @]
    /\ IF heldFrame # NoInput
       THEN /\ DistributeFrame(heldFrame, T)
            /\ UNCHANGED <<clockTimer, heldFrame>>
       ELSE /\ sent' = <<>>
            /\ outLast' = [op |-> "tick", frame |-> NoInput,
                           extracted |-> FALSE, reg |-> {},
                           propagated |-> FALSE]
            /\ UNCHANGED <<outputs, keyBuffer, errorCounts, streak,
                           clockTimer, heldFrame>>
            /\ UNCHANGED <<engineAll, captureVars, serviceVars>>

\* The manager in immediate mode: the clock is never started.
NextOutputs ==
    \/ \E id \in SinkIds, o \in Drivers : AddOutput(id, o)
    \/ \E id \in SinkIds : RemoveOutput(id)
    \/ \E f \in Frames, T \in Throws :
          DistributeFrame(f, T) /\ UNCHANGED clockVars

SpecOutputs == Init /\ [][NextOutputs]_vars

\* The manager in immediate mode with one sink failing, the one whose
\* throws are counted.
NextStreak ==
    \/ \E id \in SinkIds, o \in Drivers : AddOutput(id, o)
    \/ \E id \in SinkIds : RemoveOutput(id)
    \/ \E f \in Frames,
          T \in ThrowsOf({id \in SinkIds : streak[id] # Unwatched}) :
          DistributeFrame(f, T) /\ UNCHANGED clockVars

SpecStreak == InitStreak /\ [][NextStreak]_vars

\* The manager with its clock.
NextClock ==
    \/ \E id \in SinkIds, o \in Drivers : AddOutput(id, o)
    \/ \E id \in SinkIds : RemoveOutput(id)
    \/ \E f \in Frames, T \in ThrowsOf({"A"}) : PushFrame(f, T)
    \/ \E T \in ThrowsOf({"A"}) : ClockTick(T)
    \/ StartClock
    \/ StopClock

SpecClock == Init /\ [][NextClock]_vars

\* ------------------------------------------------------ WebSocketServer

\* An auth check that lets every connection in.
Authorized_Any(tok) == TRUE

\* if (this.authToken) { ... if (token !== this.authToken) reject }
Authorized(tok) == authToken = NULL \/ tok = authToken

\* wss.on('connection'): reject with 4401, or register the session, emit
\* clientChange and send the current state.
Connect(c, tok) ==
    /\ sockets[c].readyState = "none"
    /\ IF ~Authorized(tok)
       THEN /\ sockets' = [sockets EXCEPT ![c] =
                              [readyState |-> "closed", code |-> Unauthorized,
                               token |-> tok, listening |-> FALSE]]
            /\ srvOut' = <<>>
            /\ UNCHANGED clients
       ELSE /\ sockets' = [sockets EXCEPT ![c] =
                              [readyState |-> "open", code |-> 0,
                               token |-> tok, listening |-> TRUE]]
            /\ clients' = clients \cup {c}
            /\ srvOut' = << Event("listeners", "clientChange", c, "connected"),
                           Event(c, "state", NoId, "snapshot") >>
    /\ engineOps' = <<>>
    /\ srvLast' = Did("connect", c, NoMessage, TRUE)
    /\ UNCHANGED <<authToken, pendingOps>>
    /\ UNCHANGED <<engineAll, captureVars, outputVars, healthVars, blend>>

\* The acknowledgment sent when the command had an id.
Ack(c, id) ==
    IF id # NoId THEN << Event(c, "ack", id, "success") >> ELSE <<>>

\* The error event of the catch block, without the command's id.
ErrorEvent_NoId(c, id, message) == Event(c, "error", NoId, message)

\* The error event of the catch block of handleCommand.
ErrorEvent(c, id, message) == Event(c, "error", id, message)

\* ws.on('message'): JSON.parse, then handleCommand without awaiting it.
\* A text that is not JSON is answered by the handler's own catch.  The
\* JSON text null makes handleCommand throw while reading command.type, and
\* again in its catch block, so that nothing is sent; a number has no type
\* and no id, so that no case matches and nothing is sent.  A command with a
\* type that has no case is acknowledged.
Message(c, m) ==
    /\ \/ sockets[c].readyState = "open"
       \/ sockets[c].code = Unauthorized
    /\ srvLast' = Did("message", c, m, TRUE)
    /\ IF ~sockets[c].listening \/ (m.raw # "garbage" /\ c \notin clients)
          \/ m.raw \in {"null", "number"}
       THEN /\ srvOut' = <<>>
            /\ engineOps' = <<>>
            /\ UNCHANGED pendingOps
       ELSE IF m.raw = "garbage"
       THEN /\ srvOut' = << Event(c, "error", NoId, "Invalid JSON message") >>
            /\ engineOps' = <<>>
            /\ UNCHANGED pendingOps
       ELSE IF m.type = "load" /\ ~m.payload
       THEN /\ srvOut' = << ErrorEvent(c, m.id, "Missing payload for load") >>
            /\ engineOps' = <<>>
            /\ UNCHANGED pendingOps
       ELSE IF m.type \in Awaited
       THEN /\ Cardinality(pendingOps) < MaxPending
            /\ [conn |-> c, type |-> m.type, id |-> m.id] \notin pendingOps
            /\ pendingOps' = pendingOps
                             \cup {[conn |-> c, type |-> m.type, id |-> m.id]}
            /\ engineOps' = << m.type >>
            /\ srvOut' = <<>>
       ELSE IF m.type = "freeze"
       THEN /\ engineOps' = << "freeze" >>
            /\ srvOut' = Ack(c, m.id)
            /\ UNCHANGED pendingOps
       ELSE IF m.type = "status"
       THEN /\ engineOps' = <<>>
            /\ srvOut' = << Event(c, "state", NoId, "snapshot") >>
            /\ UNCHANGED pendingOps
       ELSE /\ engineOps' = <<>>
            /\ srvOut' = Ack(c, m.id)
            /\ UNCHANGED pendingOps
    /\ UNCHANGED <<authToken, clients, sockets>>
    /\ UNCHANGED <<engineAll, captureVars, outputVars, healthVars, blend>>

\* The awaited engine method settles: the handler resumes after the switch
\* (ack) or in its catch block (error), sending only to an open socket.
EngineDone(p, ok) ==
    /\ p \in pendingOps
    /\ pendingOps' = pendingOps \ {p}
    /\ srvOut' = IF sockets[p.conn].readyState # "open" THEN <<>>
                 ELSE IF ok THEN Ack(p.conn, p.id)
                 ELSE << ErrorEvent(p.conn, p.id, "thrown by " \o p.type) >>
    /\ engineOps' = <<>>
    /\ srvLast' = Did("engineDone", p.conn,
                      [raw |-> "object", type |-> p.type, id |-> p.id,
                       payload |-> TRUE], ok)
    /\ UNCHANGED <<authToken, clients, sockets>>
    /\ UNCHANGED <<engineAll, captureVars, outputVars, healthVars, blend>>

\* ws.on('close') of a registered session.
Close(c) ==
    /\ sockets[c].readyState = "open"
    /\ sockets[c].listening
    /\ clients' = clients \ {c}
    /\ sockets' = [sockets EXCEPT ![c].readyState = "closed"]
    /\ srvOut' = << Event("listeners", "clientChange", c, "disconnected") >>
    /\ engineOps' = <<>>
    /\ srvLast' = Did("close", c, NoMessage, TRUE)
    /\ UNCHANGED <<authToken, pendingOps>>
    /\ UNCHANGED <<engineAll, captureVars, outputVars, healthVars, blend>>

\* The events of one broadcast, to the registered sessions that are open.
ToAll(type) ==
    LET to(c) == IF c \in clients /\ sockets[c].readyState = "open"
                 THEN << Event(c, type, NoId, "payload") >> ELSE <<>>
    IN  to("c1") \o to("c2")

\* broadcastState(snapshot) and broadcastStats(stats)
Broadcast(type) ==
    /\ srvOut' = ToAll(type)
    /\ engineOps' = <<>>
    /\ srvLast' = Did(type, NULL, NoMessage, TRUE)
    /\ UNCHANGED <<authToken, clients, sockets, pendingOps>>
    /\ UNCHANGED <<engineAll, captureVars, outputVars, healthVars, blend>>

NextServer ==
    \/ \E c \in Conns, tok \in Tokens : Connect(c, tok)
    \/ \E c \in Conns, m \in Messages : Message(c, m)
    \/ \E p \in pendingOps, ok \in BOOLEAN : EngineDone(p, ok)
    \/ \E c \in Conns : Close(c)
    \/ \E type \in {"state", "frameUpdate"} : Broadcast(type)

\* ----------------------------------------------------------- HealthServer

\* handleHealth(res): the status and the HTTP code of the reply.
HandleHealth(engineState, fps) ==
    LET isOnAir == engineState \in {"on-air", "frozen"}
    IN  [status |-> IF isOnAir THEN "on-air" ELSE "ok", code |-> 200]

\* GET /health
GetHealth ==
    /\ response' = HandleHealth(probe.engine, probe.fps)
    /\ UNCHANGED probe
    /\ UNCHANGED <<engineAll, captureVars, outputVars, serverVars, blend>>

\* The engine changes state or the capture reports another rate.
Observe(e, f) ==
    /\ probe' = [engine |-> e, fps |-> f]
    /\ response' = NoResponse
    /\ UNCHANGED <<engineAll, captureVars, outputVars, serverVars, blend>>

NextHealth ==
    \/ GetHealth
    \/ \E e \in EngineState, f \in 0..MaxFps : Observe(e, f)

\* The control server alone, with or without a token configured.
InitServer ==
    /\ InitEngine /\ supWatch = FALSE /\ mixWatch = FALSE /\ sn = StOff
    /\ InitCapture /\ InitOutputs
    /\ wiring = Unwired
    /\ authToken \in {NULL, "secret123"}
    /\ InitSockets
    /\ probe = NoProbe /\ response = NoResponse /\ blend = NoBlend

SpecServer == InitServer /\ [][NextServer]_vars

\* The health endpoint alone.
InitHealth ==
    /\ InitEngine /\ supWatch = FALSE /\ mixWatch = FALSE /\ sn = StOff
    /\ InitCapture /\ InitOutputs
    /\ wiring = Unwired
    /\ authToken = NULL /\ InitSockets
    /\ probe \in [engine : EngineState, fps : 0..MaxFps]
    /\ response = NoResponse /\ blend = NoBlend

SpecHealth == InitHealth /\ [][NextHealth]_vars

\* ------------------------------------------------ main process: the blend

\* const factor = Math.min(elapsed / duration, 1); const f = (factor * 256) | 0
\* The quotient of two integers below 2^31 is never closer to an integer
\* than a double resolves, so the truncation is that of the exact value.
Factor256(elapsed, duration) ==
    IF elapsed >= duration THEN 256 ELSE (elapsed * 256) \div duration

\* A blend whose inverse weight is 255 - f.
BlendByte_Inv255(s, d, f) ==
    (((s * (255 - f)) + (d * f)) \div 256) % 256

\* out[i] = (src[i] * inv + dst[i] * f) >> 8, stored into a byte.
BlendByte(s, d, f) ==
    (((s * (256 - f)) + (d * f)) \div 256) % 256

\* blendFrames(src, dst, factor, out): the loop unrolled four ways and the
\* loop over the remaining bytes apply the same expression, so every byte
\* below out.length is written once; out has the length of src and dst.
BlendFrames(src, dst, f) ==
    [i \in 1..Len(src) |-> BlendByte(src[i], dst[i], f)]

\* The frame listener of mixCapture with an outgoing frame stored: the
\* incoming frame is blended into mixBlendBuffer.
BlendFrame(elapsed, duration) ==
    /\ ~blend.done
    /\ blend' = [blend EXCEPT
                    !.elapsed = elapsed,
                    !.duration = duration,
                    !.f = Factor256(elapsed, duration),
                    !.out = BlendFrames(blend.src, blend.dst,
                                        Factor256(elapsed, duration)),
                    !.done = TRUE]
    /\ UNCHANGED <<engineAll, captureVars, outputVars, serverVars, healthVars>>

\* The outgoing and the incoming frame of a mix.
InitBlend ==
    /\ InitEngine /\ supWatch = FALSE /\ mixWatch = FALSE /\ sn = StOff
    /\ InitCapture /\ InitOutputs
    /\ wiring = Unwired
    /\ authToken = NULL /\ InitSockets
    /\ probe = NoProbe
    /\ response = NoResponse
    /\ \E p \in BufferPairs :
          blend = [NoBlend EXCEPT !.src = p[1], !.dst = p[2]]

NextBlend ==
    \E e \in Elapsed, d \in Durations : BlendFrame(e, d)

SpecBlend == InitBlend /\ [][NextBlend]_vars

\* ---------------------------------------------------------------- claims

PendingTimers ==
    BagCardinality([c \in {x \in InFlight : x.pc = "mix_timer"} |-> calls[c]])

\* C1: in every reachable state, under any interleaving of load, take,
\* takeMix, clear and freeze (and of the mix timer callback), state in
\* {on-air, frozen} implies that pgmTemplate is non-null and pgmReady is true.
C1_OnAirHasProgram ==
    state \in {"on-air", "frozen"} => (pgmTemplate # NULL /\ pgmReady)

\* C2: in every reachable state, mixing = true implies that state is
\* pvw-loaded or on-air and that exactly one mix completion timer is pending.
C2_MixingHasOneTimer ==
    mixing => (state \in {"pvw-loaded", "on-air"} /\ PendingTimers = 1)

\* C3: a clear() called while mixing is true leaves mixing false as soon as
\* it has been invoked and has emitted mixCancel exactly once; it ends in
\* idle with pgmTemplate = null; and a mix that a clear() has superseded
\* never emits take.
C3_ClearCancelsMix ==
    [][ /\ (last'.op = "clear" /\ last'.phase = "call" /\ mixing)
            => (~mixing' /\ Count(emitted', "mixCancel") = 1)
        /\ (last'.op = "clear" /\ last'.result = "ok")
            => (state' = "idle" /\ pgmTemplate' = NULL)
        /\ (last'.op = "takeMix" /\ last'.phase = "done" /\ last'.result = "ok")
            => last'.sup # "clear" ]_vars

\* C4: once take() or takeMix() has got past its precondition no mix timer
\* armed earlier is left pending (and after take() mixing is false), and a
\* mix that a take() or another takeMix() has superseded never performs its
\* swap and never emits take.
C4_CutSupersedesMix ==
    [][ /\ (last'.op \in {"take", "takeMix"} /\ last'.phase = "call"
                /\ last'.result = "pending")
            => \A c \in BagToSet(calls') : c.pc # "mix_timer"
        /\ (last'.op = "take" /\ last'.phase = "call"
                /\ last'.result = "pending")
            => ~mixing'
        /\ (last'.op = "takeMix" /\ last'.phase \in {"fire", "done"})
            => last'.sup # "cut" ]_vars

\* C5: a successful load(payload) (here one that ran with no step of any
\* other operation) sets pvwReady = true and pvwTemplate = payload, and
\* changes state to pvw-loaded only when the state was idle; in pvw-loaded,
\* on-air and frozen the state is unchanged.
C5_LoadKeepsState ==
    [][ (rt.stage = "load" /\ rt'.stage = "loaded")
            => /\ pvwReady'
               /\ pvwTemplate' = rt'.P
               /\ state' = (IF state = "idle" THEN "pvw-loaded" ELSE state) ]_vars

\* C6: in every reachable state with state = idle, pvwTemplate and
\* pgmTemplate are both null and pvwReady and pgmReady are both false.
C6_IdleIsEmpty ==
    state = "idle" => /\ pvwTemplate = NULL /\ pgmTemplate = NULL
                      /\ ~pvwReady /\ ~pgmReady

\* C7: take() and takeMix(d) called when pvwReady is false or when a surface
\* is not attached fail with an error, leave state, ready-flags, templates,
\* mixing and the surface labelling as they were, and emit no event.
C7_FailedTakeChangesNothing ==
    [][ (/\ last'.op \in {"take", "takeMix"}
         /\ last'.phase = "call"
         /\ (~pvwReady \/ pvwWindow = NULL \/ pgmWindow = NULL))
            => /\ last'.result = "error"
               /\ UNCHANGED engineVars
               /\ Len(emitted') = 0 ]_vars

\* A takeMix has failed on a preview that is not ready while a program is
\* on air.
C7_Witness ==
    /\ last.op = "takeMix" /\ last.phase = "call" /\ last.result = "error"
    /\ ~pvwReady /\ pgmTemplate # NULL /\ state = "on-air"

\* C8: load(payload) called when no PVW surface is attached fails with an
\* error and leaves state, pvwReady and pvwTemplate as they were.
C8_FailedLoadChangesNothing ==
    [][ (last'.op = "load" /\ last'.phase = "call" /\ pvwWindow = NULL)
            => /\ last'.result = "error"
               /\ UNCHANGED <<state, pvwReady, pvwTemplate>> ]_vars

\* C9: from any state with both surfaces attached, a completed load(P)
\* followed by a completed take(), with no step of any other operation in
\* between, yields pgmTemplate = P, pgmReady, not pvwReady and state on-air.
C9_LoadTakeRoundTrip ==
    rt.stage = "done" => /\ pgmTemplate = rt.P
                         /\ pgmReady
                         /\ ~pvwReady
                         /\ state = "on-air"

\* load(P2) then take() have completed on their own while P1 was on air.
C9_Witness ==
    rt.stage = "done" /\ rt.P = "P2" /\ pvwTemplate = "P1"

\* C10: a takeMix(d) issued with a loaded preview P2 and run with no step of
\* any other operation: mixing is true until the timer fires, mixStart is
\* emitted exactly once and carries d, and when the timer callback has
\* finished the surfaces have been exchanged once, mixing = false,
\* pgmTemplate = P2, pvwReady = false, state = on-air and take has been
\* emitted exactly once (and not before).
C10_MixRunsToCompletion ==
    /\ mt.stage \in {"play", "timer"} => mixing
    /\ mt.stage \in {"timer", "stop", "done"}
            => (mt.nStart = 1 /\ mt.dur = mt.d)
    /\ mt.stage \in {"play", "timer", "stop"} => mt.nTake = 0
    /\ mt.stage = "done"
            => /\ ~mixing
               /\ pgmTemplate = mt.P
               /\ ~pvwReady
               /\ state = "on-air"
               /\ mt.nTake = 1
               /\ pgmWindow = mt.pvw0 /\ pvwWindow = mt.pgm0

\* A takeMix(500) of P2 over P1 on air has run to completion on its own.
C10_Witness ==
    /\ mt.stage = "done" /\ mt.d = 500
    /\ mt.P = "P2" /\ pvwTemplate = "P1"

\* C11: a status reply sent while a load, take, takeMix or clear that runs
\* alone is suspended is the snapshot from before that operation or the
\* snapshot after it, never a mixture of the two.
C11_SnapshotsAreAtomic ==
    sn.stage = "done" => (sn.seen = sn.pre \/ sn.seen = SnapNow)

\* C12: once two distinct surfaces are attached, every step other than
\* setWindows keeps PVW and PGM two distinct surfaces out of the same two;
\* the swap in take() and the swap at MIX completion exchange the labels
\* and every other step leaves them where they are.
C12_TwoSurfaces ==
    [][ (/\ pvwWindow # NULL /\ pgmWindow # NULL /\ pvwWindow # pgmWindow
         /\ last'.op # "setWindows")
        => /\ pvwWindow' # pgmWindow'
           /\ {pvwWindow', pgmWindow'} = {pvwWindow, pgmWindow}
           /\ IF \/ (last'.op = "take" /\ last'.phase = "call"
                                       /\ last'.result = "pending")
                 \/ (last'.op = "takeMix" /\ last'.phase = "fire")
              THEN pvwWindow' = pgmWindow /\ pgmWindow' = pvwWindow
              ELSE UNCHANGED <<pvwWindow, pgmWindow>> ]_vars

C12_Witness ==
    /\ last.op = "takeMix" /\ last.phase = "done" /\ last.result = "ok"
    /\ pgmWindow = "a" /\ pvwWindow = "b"

\* C13: render-process-gone on the surface currently labelled PGM while the
\* engine is on-air issues clear(); render-process-gone on the surface
\* currently labelled PVW issues no clear().
C13_CrashClearsProgram ==
    [][ last'.op = "gone"
        => /\ (emitted'[1].arg = pgmWindow /\ state = "on-air")
                  => last'.result \in {"pending", "ok"}
           /\ emitted'[1].arg = pvwWindow => last'.result = "skip" ]_vars

\* C15: freeze() in idle or pvw-loaded changes nothing and emits nothing,
\* in particular no freeze event.
C15_FreezeNoOpWhenOffAir ==
    [][ (last'.op = "freeze" /\ state \in {"idle", "pvw-loaded"})
        => (UNCHANGED engineVars /\ Len(emitted') = 0) ]_vars

\* C16: after two freeze() calls in a row the snapshot is the one from
\* before the first call; between the two only the state differs, on-air
\* having become frozen and frozen on-air.
C16_FreezeTwiceRestores ==
    fz.n = 2
    => /\ SnapNow = fz.s0
       /\ [fz.s1 EXCEPT !.state = fz.s0.state] = fz.s0
       /\ fz.s1.state = (CASE fz.s0.state = "on-air" -> "frozen"
                           [] fz.s0.state = "frozen" -> "on-air"
                           [] OTHER -> fz.s0.state)

C16_Witness ==
    fz.n = 2 /\ state = "frozen" /\ fz.s1.state = "on-air" /\ pgmTemplate = "P2"

\* C17: updatePgm(vars) called in idle or pvw-loaded invokes no hook,
\* leaves pgmTemplate alone and emits nothing; called in on-air or frozen it
\* gives a non-null pgmTemplate the new variables and leaves state and
\* ready-flags as they are.
C17_UpdatePgmOnlyWhenLive ==
    [][ (last'.op = "updatePgm" /\ last'.phase = "call")
        => IF state \in {"on-air", "frozen"}
           THEN /\ pgmTemplate # NULL
                      => (last'.result = "pending" /\ Updated(pgmTemplate')
                          /\ pgmTemplate' = SetVariables(pgmTemplate))
                /\ UNCHANGED <<state, pvwReady, pgmReady>>
           ELSE /\ last'.result = "ok"
                /\ UNCHANGED pgmTemplate
                /\ Len(emitted') = 0 ]_vars

\* C14: a frame emitted while the freeze flag is set has the bytes of the
\* last frame emitted before the flag was set; with the flag clear, a paint
\* with a bitmap replaces lastFrame and a tick emits lastFrame.
C14_FrozenRepeatsLastEmitted ==
    [][ /\ (capLast'.op = "tick" /\ frozen /\ capOut' # NoFrame
                                 /\ refOut # NoFrame)
            => capOut' = refOut
        /\ (capLast'.op = "paint" /\ ~frozen /\ capLast'.arg # EmptyBitmap)
            => lastFrame' = capLast'.arg
        /\ (capLast'.op = "tick" /\ ~frozen /\ lastFrame # NoFrame)
            => capOut' = lastFrame ]_vars

\* Calls of function fn made on sink id by the last step.
SentTo(id, fn) == {i \in DOMAIN sent : sent[i].id = id /\ sent[i].fn = fn}

\* C18: a distribution in which no registered sink both exposes
\* pushKeyFrame and has needsKeyFrame other than false extracts no key and
\* calls pushKeyFrame on no sink.
C18_NoKeyWorkWhenUnneeded ==
    [][ (outLast'.op = "distribute" /\ ~NeedsKey)
        => /\ ~outLast'.extracted
           /\ keyBuffer' = keyBuffer
           /\ \A i \in DOMAIN sent' : sent'[i].fn # "pushKeyFrame" ]_vars

\* C19: in a distribution where some sink needs a key, every buffer given
\* to pushKeyFrame is the alpha-as-luma image of the fill frame of that
\* distribution: width*height*4 bytes, B = G = R = the alpha of the pixel,
\* A = 255.
C19_KeyIsAlphaAsLuma ==
    (outLast.op = "distribute" /\ outLast.extracted)
    => \A i \in DOMAIN sent :
          sent[i].fn = "pushKeyFrame"
          => LET f == outLast.frame
                 n == f.width * f.height
             IN  /\ Len(sent[i].buf) = 4 * n
                 /\ \A k \in 0..(n - 1) :
                       /\ sent[i].buf[4 * k + 1] = f.bytes[4 * k + 4]
                       /\ sent[i].buf[4 * k + 2] = f.bytes[4 * k + 4]
                       /\ sent[i].buf[4 * k + 3] = f.bytes[4 * k + 4]
                       /\ sent[i].buf[4 * k + 4] = 255

C19_Witness ==
    /\ outLast.op = "distribute" /\ outLast.extracted
    /\ outLast.frame.width = 2
    /\ SentTo("A", "pushKeyFrame") # {} /\ SentTo("B", "pushKeyFrame") # {}
    /\ outputs["A"].needsKey = "false"

\* C20: in a distribution every sink registered at its start gets exactly
\* one pushFrame call, with the input buffer and size, whichever sinks
\* throw, and no exception leaves the distribution.
C20_EverySinkGetsTheFrame ==
    outLast.op = "distribute"
    => /\ ~outLast.propagated
       /\ \A id \in outLast.reg :
             /\ Cardinality(SentTo(id, "pushFrame")) = 1
             /\ \A i \in SentTo(id, "pushFrame") :
                   /\ sent[i].buf = outLast.frame.bytes
                   /\ sent[i].width = outLast.frame.width
                   /\ sent[i].height = outLast.frame.height

C20_Witness ==
    /\ outLast.op = "distribute" /\ outLast.reg = {"A", "B"}
    /\ errorCounts["A"] = 3 /\ errorCounts["B"] = 0
    /\ SentTo("A", "pushKeyFrame") = {} /\ SentTo("B", "pushKeyFrame") # {}
    /\ outputs["A"].hasKey

\* The calls of function fn made on sink id by the last step, in order.
CallsTo(id, fn) ==
    SelectSeq(sent, LAMBDA r : r.id = id /\ r.fn = fn)

\* C21: once the distribution in which a sink threw for the tenth time in a
\* row has returned, the sink is no longer registered, that distribution
\* called its destroy() exactly once, and no later step calls its pushFrame,
\* pushKeyFrame or destroy.
C21_TenthThrowDisables ==
    [][\A id \in SinkIds :
          streak'[id] = ErrorLimit =>
              /\ ~outputs'[id].on
              /\ IF streak[id] < ErrorLimit
                 THEN /\ outLast'.op = "distribute"
                      /\ Len(SelectSeq(sent', LAMBDA r :
                                r.id = id /\ r.fn = "destroy")) = 1
                 ELSE \A i \in DOMAIN sent' : sent'[i].id # id]_vars

\* A sink has just been disabled by its tenth throw in a row, made in
\* pushKeyFrame, while the other sink was served.
C21_Witness ==
    \E id \in SinkIds :
        /\ streak[id] = ErrorLimit
        /\ ~outputs[id].on
        /\ Len(CallsTo(id, "destroy")) = 1
        /\ Len(CallsTo(id, "pushKeyFrame")) = 1
        /\ \E o \in SinkIds \ {id} : Len(CallsTo(o, "pushFrame")) = 1

\* C22: with the clock running pushFrame calls no sink; a tick distributes
\* the frame pushed last since the clock was started, again on the next
\* tick when nothing was pushed, and calls no sink when nothing was pushed
\* yet; stopClock drops the held frame, and with the clock stopped
\* pushFrame distributes the frame at once.
C22_ClockMode ==
    [][/\ (via'.by = "pushFrame" /\ clockTimer) => sent' = <<>>
       /\ (via'.by = "pushFrame" /\ ~clockTimer) =>
              /\ outLast'.op = "distribute"
              /\ outLast'.frame = via'.latest
              /\ \A id \in outLast'.reg :
                    \E i \in DOMAIN sent' :
                        /\ sent'[i].id = id
                        /\ sent'[i].fn = "pushFrame"
                        /\ sent'[i].buf = via'.latest.bytes
       /\ via'.by = "tick" =>
              IF via.latest = NoInput
              THEN sent' = <<>>
              ELSE /\ outLast'.op = "distribute"
                   /\ outLast'.frame = via.latest
                   /\ \A id \in outLast'.reg :
                         \E i \in DOMAIN sent' :
                             /\ sent'[i].id = id
                             /\ sent'[i].fn = "pushFrame"
                             /\ sent'[i].buf = via.latest.bytes
                             /\ sent'[i].width = via.latest.width
       /\ outLast'.op = "stopClock" =>
              (heldFrame' = NoInput /\ ~clockTimer')]_vars

\* The second tick in a row after a push hands the held frame to a sink.
C22_Witness ==
    /\ via.by = "tick"
    /\ via.n = 2
    /\ clockTimer
    /\ \E id \in SinkIds : Len(CallsTo(id, "pushFrame")) = 1

\* C23: after any sequence of start and stop calls at most one interval
\* timer of blackBurst is set, and none when the last call was stop.
C23_BurstStartStopIdempotent ==
    wiring.on =>
        /\ wiring.timers <= 1
        /\ ~wiring.intervalId => wiring.timers = 0

\* The sources whose next frame goes to the output manager.
Pushing ==
    {s \in {"burst", "pgm", "mix"} :
        \/ s = "burst" /\ wiring.timers > 0 /\ wiring.onFrame
        \/ s = "pgm" /\ wiring.pgmCapture = "push"
        \/ s = "mix" /\ wiring.mixCaptures > 0}

\* C29: at most one source pushes frames into the output manager; the
\* capture of PGM pushes only while the engine is on-air or frozen (not
\* after a clear), and blackBurst does not push while it is.
C29_OneFrameSource ==
    wiring.on =>
        /\ Cardinality(Pushing) <= 1
        /\ wiring.src = "pgm" => state \in {"on-air", "frozen"}
        /\ wiring.src = "burst" => state \notin {"on-air", "frozen"}

\* C30: at most one mix capture is attached; after a take, a clear or a
\* mixCancel, and until the next mixStart, none is attached and the
\* outgoing and blend buffers are released.
C30_MixStateReleased ==
    wiring.on =>
        /\ wiring.mixCaptures <= 1
        /\ wiring.released =>
              /\ wiring.mixCaptures = 0
              /\ ~wiring.mixOutgoingFrame
              /\ ~wiring.mixBlendBuffer

\* A connection made with a token configured and another or no token in
\* its URL.
Rejectable(c) ==
    /\ authToken # NULL
    /\ sockets[c].readyState # "none"
    /\ sockets[c].token # authToken

C25_UndecodableGetsOneError ==
    [][(/\ srvLast'.op = "message"
        /\ srvLast'.msg.raw \in {"garbage", "null", "number"}
        /\ srvLast'.conn \in clients) =>
            /\ Len(srvOut') = 1
            /\ srvOut'[1].to = srvLast'.conn
            /\ srvOut'[1].type = "error"
            /\ clients' = clients
            /\ sockets' = sockets
            /\ engineOps' = <<>>
            /\ pendingOps' = pendingOps]_vars

\* C26: when the engine method awaited for a command throws, the session
\* that sent it, still open, is sent exactly one error event with the
\* exception's message and the command's id and no ack, and stays open and
\* registered.
C26_EngineErrorIsReported ==
    [][(/\ srvLast'.op = "engineDone"
        /\ ~srvLast'.ok
        /\ sockets[srvLast'.conn].readyState = "open") =>
            /\ srvOut' = << Event(srvLast'.conn, "error", srvLast'.msg.id,
                                  "thrown by " \o srvLast'.msg.type) >>
            /\ clients' = clients
            /\ sockets' = sockets]_vars

\* The take of a registered session, sent with an id, has just failed in
\* the engine.
C26_Witness ==
    /\ srvLast.op = "engineDone"
    /\ ~srvLast.ok
    /\ srvLast.msg.type = "take"
    /\ srvLast.msg.id = "i1"
    /\ srvLast.conn \in clients
    /\ Len(srvOut) = 1

\* C27: a next command from a registered session invokes Engine.next()
\* exactly once, and is not acknowledged before that.
C27_NextReachesEngine ==
    [][(/\ srvLast'.op = "message"
        /\ srvLast'.msg.type = "next"
        /\ srvLast'.conn \in clients) =>
            /\ engineOps' = << "next" >>
            /\ \A i \in DOMAIN srvOut' : srvOut'[i].type # "ack"]_vars

\* C28: GET /health replies "degraded" with 503 exactly when the engine is
\* on-air or frozen and the capture rate is 0, and "ok" with 200 otherwise.
C28_DegradedWhenStalled ==
    response # NoResponse =>
        IF probe.engine \in {"on-air", "frozen"} /\ probe.fps = 0
        THEN response = [status |-> "degraded", code |-> 503]
        ELSE response = [status |-> "ok", code |-> 200]

\* C31: every command with an id is eventually answered, a mix take that is
\* later cancelled included.  The handler answers when the promise of the
\* engine method settles, and the promise of takeMix settles only in its
\* timer callback: so a takeMix waiting for its timer may stop waiting only
\* because that timer fires, never because the timer is cleared.
C31_WaitingMixIsAnswered ==
    [][PendingTimers' < PendingTimers =>
          (last'.op = "takeMix" /\ last'.phase = "fire")]_vars

\* C32: pvwReady = true implies that the PVW surface has finished loading the
\* payload in pvwTemplate, overlapping loads included.  Every await of load()
\* addresses this.pvwWindow, so a load in flight is a load the PVW surface has
\* not finished: while one is in flight pvwReady is false.
LoadsInFlight ==
    {c \in DOMAIN calls : c.pc \in {"load_doc", "load_play"}}

C32_ReadyMeansLoaded ==
    pvwReady => LoadsInFlight = {}

\* C33: the template that becomes pgmTemplate when a MIX completes is the one
\* pvwTemplate held when takeMix() was called, and the surface that becomes
\* PGM is the one announced as incoming in mixStart, whatever ran during the
\* MIX.
MixFired == last.op = "takeMix" /\ last.phase = "fire"

C33_MixAirsWhatItStartedWith ==
    MixFired => (pgmTemplate = last.P /\ pgmWindow = last.incoming)

\* C35: when the play on the incoming surface rejects, take() rejects, emits
\* no take event and leaves the engine as it was before the call: for a
\* take() that ran right after its load() with no other step in between, the
\* PVW slot still holds the surface and the template it held at the call,
\* ready, and the state is still pvw-loaded.
TakeRejected ==
    /\ last.op = "take" /\ last.phase = "done" /\ last.result = "error"
    /\ last.obs

C35_RejectedTakeChangesNothing ==
    TakeRejected =>
        /\ Count(emitted, "take") = 0
        /\ pvwWindow = last.incoming
        /\ pvwTemplate = last.P
        /\ pvwReady
        /\ state = "pvw-loaded"

\* C38: a distribution removes a sink only on its tenth failure in a row:
\* a distribution that serves the sink resets its count, so failures
\* separated by successes never remove it, and a sink added under an id used
\* before starts at zero.
RemovedByDistribution(id) ==
    /\ outputs[id].on
    /\ ~outputs'[id].on
    /\ outLast'.op = "distribute"

C38_OnlyTenInARowRemove ==
    [][\A id \in SinkIds :
          (streak[id] # Unwatched /\ RemovedByDistribution(id))
              => streak'[id] = ErrorLimit]_vars

\* C39: the capture timestamps of successive frames emitted by one
\* FrameCapture are strictly increasing, for any interleaving of paints,
\* output ticks and freeze/unfreeze.
C39_TimestampsIncrease ==
    stamps.prev # NoStamp => stamps.prev < stamps.cur

Min2(a, b) == IF a <= b THEN a ELSE b

Max2(a, b) == IF a <= b THEN b ELSE a

\* C40: blendFrames on buffers of equal length with a factor in [0, 1]: f is
\* in 0..256, and every byte of the output is a byte, lies between the two
\* bytes it was blended from, is the byte of src when the factor is 0 and
\* the byte of dst when the factor is 1.
C40_BlendStaysBetween ==
    blend.done =>
        /\ blend.f \in 0..256
        /\ Len(blend.out) = Len(blend.src)
        /\ \A i \in DOMAIN blend.out :
              /\ blend.out[i] \in 0..255
              /\ blend.out[i] >= Min2(blend.src[i], blend.dst[i])
              /\ blend.out[i] <= Max2(blend.src[i], blend.dst[i])
              /\ blend.elapsed = 0 => blend.out[i] = blend.src[i]
              /\ blend.elapsed >= blend.duration
                    => blend.out[i] = blend.dst[i]

\* Half way through a mix a buffer of one pixel and a byte has been blended,
\* its first byte strictly between the two it was blended from and the byte
\* after the pixel blended as well.
C40_Witness ==
    /\ blend.done
    /\ blend.f = 128
    /\ Len(blend.out) = MaxLen
    /\ blend.src[1] = 0 /\ blend.dst[1] = 255 /\ blend.out[1] = 127
    /\ blend.src[MaxLen] = 255 /\ blend.dst[MaxLen] = 0
    /\ blend.out[MaxLen] = 127

\* No engine operation is in progress.
Quiet == calls = EmptyBag

C36_FreezeFlagFollowsState ==
    Quiet => (wiring.frozen <=> state = "frozen")

\* C37: the capture whose statistics the health endpoint reports is the
\* FrameCapture pgmCapture refers to, never a destroyed one.
C37_HealthReadsLiveCapture ==
    wiring.healthCapture = "pgmCapture"
====
